---- MODULE Spec2Model ----
(***************************************************************************)
(* State-machine model of the Grand Prix tracker (walela/gp).              *)
(*                                                                         *)
(* Two stores are modelled, as in the repository:                          *)
(*   - the legacy SQLite store of src/db.py (class Database): tables       *)
(*     players, results, tournaments, player_rankings, ranking_snapshots;  *)
(*   - the backend store of src/backend (db/queries, services/rankings,    *)
(*     api/routes/admin): tables players, tournaments, results, rankings   *)
(*     of one season.                                                      *)
(* The scrapers are modelled beside them: the mirror failover of           *)
(* ChessResultsScraper._request as a process (variable request), and the   *)
(* page readers (round count, standings tables, result validator,         *)
(* enricher) as functions of the page they are given (variable scraped).   *)
(* Recalculations and backend imports that run at the same time are        *)
(* modelled statement by statement (variable workers).                     *)
(*                                                                         *)
(* Columns that no modelled operation reads back (rating, points,          *)
(* start_rank, sex, dates) are left out of the rows.                       *)
(***************************************************************************)
EXTENDS Integers, Sequences, FiniteSets, TLC

\* ------------------------------------------------------------------ bounds
MaxTournaments == 4
MaxPlayers == 2
MaxSnapshots == 2
MaxIdentityImports == 3
MaxScrapes == 2
MaxReimportTournaments == 2
MaxMetadataTournaments == 1
MaxAtomicImports == 2
MaxTableRows == 3
MaxRounds == 2
MaxValidatedTournaments == 1
MaxStartNumbers == 2

\* ------------------------------------------------------- values and helpers
NULL == "NULL"                 \* SQL NULL / Python None of a text column
None == << >>                  \* SQL NULL / Python None of an integer column
Some(v) == << v >>
Val(x) == x[1]

HOME_FEDERATION == "KEN"

Range(s) == { s[i] : i \in DOMAIN s }

RECURSIVE SumSeq(_)
SumSeq(s) == IF s = << >> THEN 0 ELSE Head(s) + SumSeq(Tail(s))

Prefix(s, n) == SubSeq(s, 1, IF Len(s) < n THEN Len(s) ELSE n)


\* Python's ordering of two tuples of the same length.
SeqGt(a, b) == \E i \in DOMAIN a : a[i] > b[i] /\ \A j \in 1..(i - 1) : a[j] = b[j]

\* Stable sort by key, greatest first: an element goes after every element of a
\* greater key and after every earlier element of an equal key (Python's
\* sorted(..., reverse=True) keeps the original order of equal keys).
SortPositions(keys) ==
    [ i \in 1..Len(keys) |->
        Cardinality({ j \in 1..Len(keys) : SeqGt(keys[j], keys[i]) })
        + Cardinality({ j \in 1..(i - 1) : keys[j] = keys[i] })
        + 1 ]

Permute(s, pos) == [ p \in 1..Len(s) |-> s[CHOOSE i \in 1..Len(s) : pos[i] = p] ]

SortDesc(s, keys) == Permute(s, SortPositions(keys))

\* Integer division in place of round().
round_down(total, n) == total \div n

\* Python's round(total / n): round half to even.
round(total, n) ==
    LET q == total \div n
        r == total % n
    IN  IF 2 * r < n THEN q
        ELSE IF 2 * r > n THEN q + 1
        ELSE IF q % 2 = 0 THEN q ELSE q + 1

\* Python truthiness of an optional text value.
Truthy(s) == s \notin { NULL, "" }

\* SQLite lower() on the names the model imports.
lower(name) ==
    CASE name = "Ann" -> "ann"
      [] name = "ANN" -> "ann"
      [] name = "Bob" -> "bob"
      [] name = "Cy" -> "cy"
      [] OTHER -> name

\* ------------------------------------------------------------------- state
VARIABLES
    players,            \* db.py players: Seq of [fide_id, name, federation]; id = index
    results,            \* db.py results in rowid order:
                        \*   Seq of [tournament_id, player_id, tpr, has_walkover, result_status]
    tournaments,        \* db.py tournaments: set of tournament ids
    tournament_rows,    \* db.py tournaments, the row of each id:
                        \*   [name, start_date, end_date, short_name, location, rounds]
    tpr_index,          \* whether idx_results_tpr exists (update_schema.py)
    player_rankings,    \* db.py player_rankings: set of ranking rows
    ranking_snapshots,  \* db.py ranking_snapshots: Seq of snapshots, oldest first
    b_players,          \* backend players: Seq of [fide_id, name, federation]; id = index
    b_tournaments,      \* backend tournaments of the season: set of tournament ids
    b_results,          \* backend results in rowid order:
                        \*   Seq of [tournament_id, player_id, tpr, has_walkover, result_status]
    b_rankings,         \* backend rankings of the season: set of ranking rows
    request,            \* chess_results.py: the call of ChessResultsScraper._request in progress
    scraped,            \* the page a scraper function was last given, and what it returned
    workers,            \* the recalculations and imports that run in parallel (one per
                        \* request thread or script): the statement each is at and its locals
    last_op,            \* the operation that completed last, with what it was given and returned
                        \* (repeated: a recalculation that ran right after a recalculation)
    assigned            \* history: every (store, name, federation, fide_id) an import has
                        \* resolved so far, with the player id it resolved to

\* The request threads and scripts that can run at the same time.
Workers == { 1, 2 }

legacy == << players, results, tournaments, tournament_rows, tpr_index, player_rankings,
            ranking_snapshots >>

backend == << b_players, b_tournaments, b_results, b_rankings >>

scraper == << request, scraped, workers >>

stores == << legacy, backend, last_op, assigned >>

vars == << players, results, tournaments, tournament_rows, tpr_index, player_rankings,
           ranking_snapshots,
           b_players, b_tournaments, b_results, b_rankings, request, scraped, workers,
           last_op, assigned >>

\* ------------------------------------------------ Database.save_tournament
fide_match(ps, fide_id) == { i \in DOMAIN ps : ps[i].fide_id = fide_id }

\* A name lookup that compares the names as they are written.
name_match_exact(ps, name) ==
    { i \in DOMAIN ps : ps[i].name = name /\ ps[i].fide_id \in { NULL, "" } }

name_match(ps, name) ==
    { i \in DOMAIN ps : lower(ps[i].name) = lower(name) /\ ps[i].fide_id \in { NULL, "" } }

\* cursor.fetchone() on an unordered single-table SELECT: the row of lowest rowid.
fetchone(S) == CHOOSE i \in S : \A j \in S : i <= j

\* A lookup that tries the name before the FIDE ID.
resolve_player_name_first(ps, row) ==
    IF name_match(ps, row.name) # {}
    THEN LET id == fetchone(name_match(ps, row.name))
         IN  [ players |-> IF Truthy(row.fide_id)
                           THEN [ ps EXCEPT ![id].fide_id = row.fide_id ]
                           ELSE ps,
               id |-> id, how |-> "name" ]
    ELSE IF Truthy(row.fide_id) /\ fide_match(ps, row.fide_id) # {}
    THEN [ players |-> ps, id |-> fetchone(fide_match(ps, row.fide_id)), how |-> "fide" ]
    ELSE [ players |-> Append(ps, [ fide_id |-> row.fide_id,
                                    name |-> row.name,
                                    federation |-> row.federation ]),
           id |-> Len(ps) + 1, how |-> "created" ]

\* The three-step player lookup of save_tournament for one row.
resolve_player(ps, row) ==
    IF Truthy(row.fide_id) /\ fide_match(ps, row.fide_id) # {}
    THEN [ players |-> ps, id |-> fetchone(fide_match(ps, row.fide_id)), how |-> "fide" ]
    ELSE IF name_match(ps, row.name) # {}
    THEN LET id == fetchone(name_match(ps, row.name))
         IN  [ players |-> IF Truthy(row.fide_id)
                           THEN [ ps EXCEPT ![id].fide_id = row.fide_id ]
                           ELSE ps,
               id |-> id, how |-> "name" ]
    ELSE [ players |-> Append(ps, [ fide_id |-> row.fide_id,
                                    name |-> row.name,
                                    federation |-> row.federation ]),
           id |-> Len(ps) + 1, how |-> "created" ]

\* What the history keeps of the rows an import resolved.
assignments(store, rows, log) ==
    { [ store |-> store, name |-> rows[k].name, federation |-> rows[k].federation,
        fide_id |-> rows[k].fide_id, id |-> log[k].id ] :
        k \in { i \in DOMAIN rows : log[i].how # "skipped" } }

\* INSERT INTO results ... ON CONFLICT(tournament_id, player_id) DO UPDATE.
upsert_result(rs, tid, pid, row) ==
    LET hit == { i \in DOMAIN rs : rs[i].tournament_id = tid /\ rs[i].player_id = pid }
    IN  IF hit = {}
        THEN Append(rs, [ tournament_id |-> tid, player_id |-> pid, tpr |-> row.tpr,
                          has_walkover |-> row.has_walkover,
                          result_status |-> row.result_status ])
        ELSE [ i \in DOMAIN rs |->
                 IF i \in hit
                 THEN [ rs[i] EXCEPT !.tpr = row.tpr,
                                     !.has_walkover = row.has_walkover,
                                     !.result_status = IF row.result_status # NULL
                                                       THEN row.result_status
                                                       ELSE rs[i].result_status ]
                 ELSE rs[i] ]

\* The loop over the rows of one import: rows i..Len(rows) applied to (ps, rs).
RECURSIVE save_rows(_, _, _, _, _, _)
save_rows(tid, rows, i, ps, rs, log) ==
    IF i > Len(rows) THEN [ players |-> ps, results |-> rs, log |-> log ]
    ELSE IF ~Truthy(rows[i].name)
    THEN save_rows(tid, rows, i + 1, ps, rs, Append(log, [ id |-> 0, how |-> "skipped" ]))
    ELSE LET r == resolve_player(ps, rows[i])
         IN  save_rows(tid, rows, i + 1, r.players,
                       upsert_result(rs, tid, r.id, rows[i]),
                       Append(log, [ id |-> r.id, how |-> r.how ]))

\* tournament_metadata.infer_location on the names the specifications use: no
\* name gives no location, a keyword of the location map gives its town, and a
\* name with neither a keyword nor a trailing "Open <town>" gives Nairobi.
infer_location(name) ==
    CASE ~Truthy(name) -> NULL
      [] name = "Nakuru Open" -> "Nakuru"
      [] name = "Mavens Open" -> "Nairobi"
      [] OTHER -> "Nairobi"

\* tournament_metadata.infer_rounds: 8 for the eight-round keywords, else 6.
infer_rounds(name) ==
    CASE ~Truthy(name) -> 6
      [] name = "Mavens Open" -> 8
      [] OTHER -> 6

\* Python's "a or b".
Or(a, b) == IF Truthy(a) THEN a ELSE b

COALESCE(a, b) == IF a = NULL THEN b ELSE a

\* The values bound to the INSERT INTO tournaments statement. rounds is a
\* number, 0 standing for a round count that was not given; the value bound is
\* never NULL.
tournament_values(args) ==
    [ name |-> args.name,
      start_date |-> args.start_date,
      end_date |-> args.end_date,
      short_name |-> Or(args.short_name, Or(args.inferred_short_name, args.name)),
      location |-> Or(args.location, infer_location(args.name)),
      rounds |-> IF args.rounds # 0 THEN args.rounds ELSE infer_rounds(args.name) ]

\* INSERT ... ON CONFLICT(id) DO UPDATE SET name = excluded.name,
\* x = COALESCE(excluded.x, tournaments.x) for the other columns.
upsert_tournament(ts, tid, excluded) ==
    IF tid \in DOMAIN ts
    THEN [ ts EXCEPT ![tid] =
             [ name |-> excluded.name,
               start_date |-> COALESCE(excluded.start_date, ts[tid].start_date),
               end_date |-> COALESCE(excluded.end_date, ts[tid].end_date),
               short_name |-> COALESCE(excluded.short_name, ts[tid].short_name),
               location |-> COALESCE(excluded.location, ts[tid].location),
               rounds |-> excluded.rounds ] ]   \* COALESCE of a value that is never NULL
    ELSE [ t \in DOMAIN ts \cup { tid } |-> IF t = tid THEN excluded ELSE ts[t] ]

\* save_tournament(tournament_id, tournament_name, results, **metadata) inside
\* one "with sqlite3.connect(...)" block. raises_at is the row at which the
\* block raises (0: it does not): the block then leaves by rollback and every
\* statement executed so far is undone.
save_tournament_with(tid, args, rows, raises_at) ==
    LET out == save_rows(tid, rows, 1, players, results, << >>)
    IN  IF raises_at = 0
        THEN /\ Len(out.players) <= MaxPlayers
             /\ tournaments' = tournaments \cup { tid }
             /\ tournament_rows' = upsert_tournament(tournament_rows, tid, tournament_values(args))
             /\ players' = out.players
             /\ results' = out.results
             /\ last_op' = [ name |-> "save_tournament", tournament_id |-> tid, rows |-> rows,
                             resolved |-> out.log ]
             /\ assigned' = assigned \cup assignments("legacy", rows, out.log)
             /\ UNCHANGED << tpr_index, player_rankings, ranking_snapshots >>
             /\ UNCHANGED << backend, scraper >>
        ELSE /\ raises_at \in DOMAIN rows
             /\ last_op' = [ name |-> "save_tournament raised", tournament_id |-> tid,
                             rows |-> rows, raises_at |-> raises_at,
                             known |-> tid \in tournaments ]
             /\ UNCHANGED << legacy, backend, scraper, assigned >>

\* The values of the metadata keywords when a caller leaves them out.
no_metadata(name) ==
    [ name |-> name, start_date |-> NULL, end_date |-> NULL, short_name |-> NULL,
      inferred_short_name |-> NULL, location |-> NULL, rounds |-> 0 ]

\* app.py: db.save_tournament(tournament_id, TOURNAMENT_NAMES[tournament_id], results_dict)
save_tournament(tid, rows) == save_tournament_with(tid, no_metadata("Grand Prix"), rows, 0)

\* --------------------------------------------------- Database.get_all_results
\* ORDER BY r.tpr DESC: NULL sorts below every number.
tpr_order_key(r) == IF r.tpr = None THEN -1 ELSE Val(r.tpr)

\* The joined rows in the order the query returns them: tpr descending; rows of
\* equal tpr come in rowid order from the sorter, and in descending rowid order
\* when the query walks idx_results_tpr backwards.
joined_rowids(ps, rs, ts) ==
    SelectSeq([ i \in DOMAIN rs |-> i ],
              LAMBDA i : rs[i].tournament_id \in ts /\ rs[i].player_id \in DOMAIN ps)

rowid_keys(rs, rowids, idx) ==
    [ k \in DOMAIN rowids |-> << tpr_order_key(rs[rowids[k]]), IF idx THEN rowids[k] ELSE 0 >> ]

sort_rowids(rs, rowids, idx) == SortDesc(rowids, rowid_keys(rs, rowids, idx))

sorted_rowids(ps, rs, ts, idx) == sort_rowids(rs, joined_rowids(ps, rs, ts), idx)

\* One row of the SELECT; line 407 reads a NULL or empty result_status as 'valid'.
result_data(ps, r) ==
    [ player_id |-> r.player_id,
      federation |-> ps[r.player_id].federation,
      tpr |-> r.tpr,
      has_walkover |-> r.has_walkover,
      result_status |-> IF Truthy(r.result_status) THEN r.result_status ELSE "valid",
      tournament |-> r.tournament_id ]

fetch_rows(ps, rs, rowids) == [ k \in DOMAIN rowids |-> result_data(ps, rs[rowids[k]]) ]

query_rows(ps, rs, ts, idx) == fetch_rows(ps, rs, sorted_rowids(ps, rs, ts, idx))

\* Keys of the all_results dict in insertion order (setdefault on first sight).
RECURSIVE dict_keys(_, _)
dict_keys(rows, seen) ==
    IF rows = << >> THEN << >>
    ELSE IF Head(rows).player_id \in seen THEN dict_keys(Tail(rows), seen)
    ELSE << Head(rows).player_id >> \o dict_keys(Tail(rows), seen \cup { Head(rows).player_id })

group_rows(ps, rows) ==
    [ keys |-> dict_keys(rows, {}),
      rows |-> [ p \in DOMAIN ps |-> SelectSeq(rows, LAMBDA r : r.player_id = p) ] ]

get_all_results(ps, rs, ts, idx) == group_rows(ps, query_rows(ps, rs, ts, idx))

\* ------------------------------------------------ Database._ranking_priority
\* A priority that compares the best single result first and never looks at
\* the tier.
_ranking_priority_untiered(player) == << player.best_1, player.best_2, player.best_3 >>

_ranking_priority(player) ==
    IF player.tournaments_played >= 4 /\ player.best_4 > 0
    THEN << 4, player.best_4, player.best_3 >>
    ELSE IF player.tournaments_played >= 3 /\ player.best_3 > 0
    THEN << 3, player.best_3, player.best_2 >>
    ELSE IF player.tournaments_played >= 2 /\ player.best_2 > 0
    THEN << 2, player.best_2, player.best_1 >>
    ELSE IF player.tournaments_played >= 1 /\ player.best_1 > 0
    THEN << 1, player.best_1, 0 >>
    ELSE << 0, 0, 0 >>

\* ------------------------------------------- Database._store_ranking_snapshot
\* Snapshot rows whose ranks count from 0.
snapshot_rows_from_zero(sorted_records, snapshot_time) ==
    [ index \in DOMAIN sorted_records |->
        [ snapshot_time |-> snapshot_time,
          player_id |-> sorted_records[index].player_id,
          rank |-> index - 1,
          tournaments_played |-> sorted_records[index].tournaments_played,
          best_4 |-> sorted_records[index].best_4 ] ]

\* The rows appended for one recalculation, in rank order.
snapshot_rows(sorted_records, snapshot_time) ==
    [ index \in DOMAIN sorted_records |->
        [ snapshot_time |-> snapshot_time,
          player_id |-> sorted_records[index].player_id,
          rank |-> index,
          tournaments_played |-> sorted_records[index].tournaments_played,
          best_4 |-> sorted_records[index].best_4 ] ]

\* The rank a player holds in the rows of one snapshot (0 when absent).
rank_in(snapshot, player_id) ==
    IF \E i \in DOMAIN snapshot : snapshot[i].player_id = player_id
    THEN snapshot[CHOOSE i \in DOMAIN snapshot : snapshot[i].player_id = player_id].rank
    ELSE 0

\* A snapshot that breaks ties of priority by the rank of the previous snapshot,
\* the player who stood lower first.
_store_ranking_snapshot_carry(ranking_records, snapshot_time) ==
    snapshot_rows(
        SortDesc(ranking_records,
                 [ i \in DOMAIN ranking_records |->
                     _ranking_priority(ranking_records[i])
                       \o << rank_in(SelectSeq(ranking_snapshots,
                                               LAMBDA r : r.snapshot_time = snapshot_time - 1),
                                     ranking_records[i].player_id) >> ]),
        snapshot_time)

_store_ranking_snapshot(ranking_records, snapshot_time) ==
    snapshot_rows(SortDesc(ranking_records,
                           [ i \in DOMAIN ranking_records |->
                               _ranking_priority(ranking_records[i]) ]),
                  snapshot_time)

\* ----------------------------------------------- Database.recalculate_rankings
\* The filter of lines 599-600.
is_valid_result(r) == r.federation = HOME_FEDERATION /\ r.result_status = "valid"

\* valid_results.sort(key=lambda x: x["tpr"] if x["tpr"] else 0, reverse=True)
sort_valid_results(valid) ==
    SortDesc(valid, [ i \in DOMAIN valid |->
                        << IF valid[i].tpr = None THEN 0 ELSE Val(valid[i].tpr) >> ])

\* sum(r["tpr"] ...) and round(None) raise TypeError on a NULL tpr.
raises_type_error(valid) == \E i \in 1..Len(Prefix(valid, 4)) : valid[i].tpr = None

best_n(valid, n) ==
    IF Len(valid) >= n
    THEN round(SumSeq([ i \in 1..n |-> Val(valid[i].tpr) ]), n)
    ELSE 0

ranking_record(player_id, valid) ==
    [ player_id |-> player_id,
      tournaments_played |-> Len(valid),
      best_1 |-> best_n(valid, 1),
      tournament_1 |-> valid[1].tournament,
      best_2 |-> best_n(valid, 2),
      best_3 |-> best_n(valid, 3),
      best_4 |-> best_n(valid, 4) ]

\* The next value of datetime.utcnow(): later than every stored snapshot_time.
utcnow == Cardinality({ ranking_snapshots[i].snapshot_time : i \in DOMAIN ranking_snapshots }) + 1

\* The filtered and sorted valid_results of every player.
valid_results_of(all_results) ==
    [ p \in DOMAIN all_results.rows |->
        sort_valid_results(SelectSeq(all_results.rows[p], is_valid_result)) ]

\* The players the loop does not skip, in dict order.
ranked_players(keys, valid) == SelectSeq(keys, LAMBDA p : valid[p] # << >>)

ranking_records_of(ranked, valid) ==
    [ k \in DOMAIN ranked |-> ranking_record(ranked[k], valid[ranked[k]]) ]

write_rankings(ranked, valid) ==
    IF \E k \in DOMAIN ranked : raises_type_error(valid[ranked[k]])
    THEN /\ last_op' = [ name |-> "recalculate_rankings", raised |-> TRUE,
                         repeated |-> last_op.name = "recalculate_rankings" ]
         /\ UNCHANGED << player_rankings, ranking_snapshots >>
    ELSE /\ last_op' = [ name |-> "recalculate_rankings", raised |-> FALSE,
                         repeated |-> last_op.name = "recalculate_rankings" ]
         /\ player_rankings' = Range(ranking_records_of(ranked, valid))
         /\ ranking_snapshots' =
              ranking_snapshots \o _store_ranking_snapshot(ranking_records_of(ranked, valid), utcnow)

recalculate_with(all_results, valid) ==
    write_rankings(ranked_players(all_results.keys, valid), valid)

recalculate_from(all_results) == recalculate_with(all_results, valid_results_of(all_results))

recalculate_rankings ==
    /\ Cardinality({ ranking_snapshots[i].snapshot_time : i \in DOMAIN ranking_snapshots })
         < MaxSnapshots
    /\ recalculate_from(get_all_results(players, results, tournaments, tpr_index))
    /\ UNCHANGED << players, results, tournaments, tournament_rows, tpr_index, assigned >>
    /\ UNCHANGED << backend, scraper >>

\* ============================================================ backend store
\* -------------------------------------------------- backend/db/queries/players
get_by_fide_id(ps, fide_id) == { i \in DOMAIN ps : ps[i].fide_id = fide_id }

find_by_name_and_federation(ps, name, federation) ==
    { i \in DOMAIN ps : ps[i].name = name /\ ps[i].federation = federation }

players_create(ps, name, federation, fide_id) ==
    Append(ps, [ fide_id |-> fide_id, name |-> name, federation |-> federation ])

get_or_create(ps, name, federation, fide_id) ==
    IF Truthy(fide_id) /\ get_by_fide_id(ps, fide_id) # {}
    THEN [ players |-> ps, id |-> fetchone(get_by_fide_id(ps, fide_id)), how |-> "fide" ]
    ELSE IF find_by_name_and_federation(ps, name, federation) # {}
    THEN [ players |-> ps, id |-> fetchone(find_by_name_and_federation(ps, name, federation)),
           how |-> "name" ]
    ELSE [ players |-> players_create(ps, name, federation, fide_id),
           id |-> Len(ps) + 1, how |-> "created" ]

update_fide_id(ps, player_id, fide_id) == [ ps EXCEPT ![player_id].fide_id = fide_id ]

\* -------------------------------------------------- backend/db/queries/results
\* create() with the defaults scrape_tournament leaves in place.
results_create(rs, tid, player_id, tpr) ==
    Append(rs, [ tournament_id |-> tid, player_id |-> player_id, tpr |-> tpr,
                 has_walkover |-> FALSE, result_status |-> "valid" ])

update_walkover_status(rs, tid, player_id, has_walkover) ==
    [ i \in DOMAIN rs |->
        IF rs[i].tournament_id = tid /\ rs[i].player_id = player_id
        THEN [ rs[i] EXCEPT !.has_walkover = has_walkover,
                            !.result_status = IF has_walkover THEN "walkover" ELSE "valid" ]
        ELSE rs[i] ]

\* The rowids the enrichment query returns for one tournament (has_walkover is
\* never NULL in a row written by create()).
get_results_needing_enrichment(ps, rs, tid) ==
    SelectSeq([ i \in DOMAIN rs |-> i ],
              LAMBDA i : rs[i].tournament_id = tid /\ ps[rs[i].player_id].fide_id = NULL)

\* The WHERE clause of get_valid_kenyan_results_for_season.
is_valid_kenyan_result(ps, r) ==
    /\ ps[r.player_id].federation = "KEN"
    /\ r.result_status = "valid"
    /\ ~r.has_walkover
    /\ r.tpr # None

\* ----------------------------------------- api/routes/admin.scrape_tournament
\* parse_tournament: a TPR cell of 0 or without digits is None, and no row
\* carries a FIDE ID.
parse_row(name, federation, tpr) ==
    [ name |-> name, federation |-> federation, fide_id |-> NULL,
      tpr |-> IF tpr = 0 THEN None ELSE Some(tpr) ]

RECURSIVE scrape_rows(_, _, _, _, _, _)
scrape_rows(tid, rows, i, ps, rs, log) ==
    IF i > Len(rows) THEN [ players |-> ps, results |-> rs, log |-> log ]
    ELSE LET r == get_or_create(ps, rows[i].name, rows[i].federation, rows[i].fide_id)
         IN  scrape_rows(tid, rows, i + 1, r.players,
                         results_create(rs, tid, r.id, rows[i].tpr),
                         Append(log, [ id |-> r.id, how |-> r.how ]))

\* tournaments.create, players.get_or_create and results.create each end with
\* conn.commit(). raises_at is the row at which the loop raises (0: it does
\* not): what was committed before it stays.
scrape_tournament_with(tid, rows, raises_at) ==
    IF raises_at = 0
    THEN LET out == scrape_rows(tid, rows, 1, b_players, b_results, << >>)
         IN  /\ tid \notin b_tournaments
             /\ b_tournaments' = b_tournaments \cup { tid }
             /\ b_players' = out.players
             /\ b_results' = out.results
             /\ last_op' = [ name |-> "scrape_tournament", tournament_id |-> tid, rows |-> rows,
                             resolved |-> out.log ]
             /\ assigned' = assigned \cup assignments("backend", rows, out.log)
             /\ UNCHANGED b_rankings
             /\ UNCHANGED << legacy, scraper >>
    ELSE LET done == SubSeq(rows, 1, raises_at - 1)
             out == scrape_rows(tid, done, 1, b_players, b_results, << >>)
         IN  /\ raises_at \in DOMAIN rows
             /\ tid \notin b_tournaments
             /\ b_tournaments' = b_tournaments \cup { tid }
             /\ b_players' = out.players
             /\ b_results' = out.results
             /\ last_op' = [ name |-> "scrape_tournament raised", tournament_id |-> tid,
                             rows |-> rows, raises_at |-> raises_at, known |-> FALSE ]
             /\ assigned' = assigned \cup assignments("backend", done, out.log)
             /\ UNCHANGED b_rankings
             /\ UNCHANGED << legacy, scraper >>

scrape_tournament(tid, rows) == scrape_tournament_with(tid, rows, 0)

\* ------------------------------------ api/routes/admin.enrich_tournament_data
\* The loop over enriched_data: entry k is what the player page of the k-th
\* result needing enrichment gave; current holds the FIDE IDs read before the loop.
RECURSIVE apply_enrichment(_, _, _, _, _, _, _)
apply_enrichment(tid, needs, data, k, current, ps, rs) ==
    IF k > Len(needs) THEN [ players |-> ps, results |-> rs ]
    ELSE LET player_id == b_results[needs[k]].player_id
         IN  apply_enrichment(tid, needs, data, k + 1, current,
                 IF Truthy(data[k].fide_id) /\ ~Truthy(current[player_id].fide_id)
                 THEN update_fide_id(ps, player_id, data[k].fide_id)
                 ELSE ps,
                 IF data[k].has_walkover # None
                 THEN update_walkover_status(rs, tid, player_id, Val(data[k].has_walkover))
                 ELSE rs)

enrich_with(tid, needs, data) ==
    LET out == apply_enrichment(tid, needs, data, 1, b_players, b_players, b_results)
    IN  /\ b_players' = out.players
        /\ b_results' = out.results
        /\ last_op' = [ name |-> "enrich_tournament_data", tournament_id |-> tid ]
        /\ UNCHANGED << b_tournaments, b_rankings, assigned >>
        /\ UNCHANGED << legacy, scraper >>

\* 404 without the tournament; nothing to do when no result needs enrichment.
enrich_tournament_data(tid, pages) ==
    /\ tid \in b_tournaments
    /\ get_results_needing_enrichment(b_players, b_results, tid) # << >>
    /\ \E data \in [ DOMAIN get_results_needing_enrichment(b_players, b_results, tid) -> pages ] :
         enrich_with(tid, get_results_needing_enrichment(b_players, b_results, tid), data)

\* ------------------------------------------- api/routes/admin.update_player
update_player(player_id, fide_id) ==
    /\ player_id \in DOMAIN b_players
    /\ b_players' = IF fide_id # NULL THEN update_fide_id(b_players, player_id, fide_id)
                    ELSE b_players
    /\ last_op' = [ name |-> "update_player", player_id |-> player_id, fide_id |-> fide_id ]
    /\ UNCHANGED << b_tournaments, b_results, b_rankings, assigned >>
    /\ UNCHANGED << legacy, scraper >>

\* ------------------------------------------- backend/services/rankings.py
OrZero(x) == IF x = None THEN 0 ELSE Val(x)

_sort_key(data) ==
    << OrZero(data.best_1), OrZero(data.best_2), OrZero(data.best_3), OrZero(data.best_4),
       data.tournaments_played >>

\* rankings.upsert: ON CONFLICT keeps the row and moves its current_rank to
\* previous_rank.
rankings_upsert_excluded_rank(table, data, current_rank) ==
    LET old == { e \in table : e.player_id = data.player_id }
    IN  (table \ old) \cup
        { [ player_id |-> data.player_id,
            tournaments_played |-> data.tournaments_played,
            best_1 |-> data.best_1, best_2 |-> data.best_2,
            best_3 |-> data.best_3, best_4 |-> data.best_4,
            current_rank |-> current_rank,
            previous_rank |-> IF old = {} THEN data.previous_rank
                              ELSE Some(current_rank) ] }

rankings_upsert(table, data, current_rank) ==
    LET old == { e \in table : e.player_id = data.player_id }
    IN  (table \ old) \cup
        { [ player_id |-> data.player_id,
            tournaments_played |-> data.tournaments_played,
            best_1 |-> data.best_1, best_2 |-> data.best_2,
            best_3 |-> data.best_3, best_4 |-> data.best_4,
            current_rank |-> current_rank,
            previous_rank |-> IF old = {} THEN data.previous_rank
                              ELSE Some((CHOOSE e \in old : TRUE).current_rank) ] }

get_previous_ranks(table, player_id) ==
    IF \E e \in table : e.player_id = player_id
    THEN Some((CHOOSE e \in table : e.player_id = player_id).current_rank)
    ELSE None

\* The TPRs of one player's rows of the query, best first.
sort_by_tpr(rows) == SortDesc(rows, [ i \in DOMAIN rows |-> << OrZero(rows[i].tpr) >> ])

sorted_tprs(ps, rs, player_id) ==
    sort_by_tpr(SelectSeq(rs, LAMBDA r : r.player_id = player_id /\ is_valid_kenyan_result(ps, r)))

nth_best(sorted_results, n) ==
    IF Len(sorted_results) >= n THEN sorted_results[n].tpr ELSE None

ranking_data_of(player_id, sorted_results, previous_rank) ==
    [ player_id |-> player_id,
      tournaments_played |-> Len(sorted_results),
      best_1 |-> nth_best(sorted_results, 1),
      best_2 |-> nth_best(sorted_results, 2),
      best_3 |-> nth_best(sorted_results, 3),
      best_4 |-> nth_best(sorted_results, 4),
      previous_rank |-> previous_rank ]

\* player_results is filled in the order of the query, ORDER BY p.id.
ranking_data(ps, rs, table) ==
    LET ids == SelectSeq([ i \in DOMAIN ps |-> i ],
                         LAMBDA p : \E i \in DOMAIN rs :
                                      rs[i].player_id = p /\ is_valid_kenyan_result(ps, rs[i]))
    IN  [ k \in DOMAIN ids |->
            ranking_data_of(ids[k], sorted_tprs(ps, rs, ids[k]), get_previous_ranks(table, ids[k])) ]

sort_ranking_data(data) == SortDesc(data, [ i \in DOMAIN data |-> _sort_key(data[i]) ])

RECURSIVE save_ranks(_, _, _)
save_ranks(table, sorted, i) ==
    IF i > Len(sorted) THEN table
    ELSE save_ranks(rankings_upsert(table, sorted[i], i), sorted, i + 1)

recalculate ==
    /\ b_rankings' = save_ranks(b_rankings,
                                sort_ranking_data(ranking_data(b_players, b_results, b_rankings)), 1)
    /\ last_op' = [ name |-> "recalculate" ]
    /\ UNCHANGED << b_players, b_tournaments, b_results, assigned >>
    /\ UNCHANGED << legacy, scraper >>

\* ------------------------------------------------------------ specifications
Row(name, fide_id, federation, tpr, has_walkover, result_status) ==
    [ name |-> name, fide_id |-> fide_id, federation |-> federation, tpr |-> tpr,
      has_walkover |-> has_walkover, result_status |-> result_status ]

Init ==
    /\ players = << >>
    /\ results = << >>
    /\ tournaments = {}
    /\ tournament_rows = << >>
    /\ tpr_index \in BOOLEAN
    /\ player_rankings = {}
    /\ ranking_snapshots = << >>
    /\ b_players = << >>
    /\ b_tournaments = {}
    /\ b_results = << >>
    /\ b_rankings = {}
    /\ request = [ pc |-> "idle" ]
    /\ scraped = [ by |-> "nothing" ]
    /\ workers = [ w \in Workers |-> [ pc |-> "idle" ] ]
    /\ last_op = [ name |-> "init" ]
    /\ assigned = {}

\* Both stores empty, the legacy one without idx_results_tpr.
InitStores == Init /\ ~tpr_index

\* Imports of the ranking specification: standings of one or two home players.
AnnTprs == { 0, 1 }
BobTprs == { 1, 2 }
AnnRows == { Row("Ann", NULL, "KEN", Some(t), FALSE, NULL) : t \in AnnTprs }
BobRows == { Row("Bob", NULL, "KEN", Some(t), FALSE, NULL) : t \in BobTprs }
\* A forfeited result of a home player, and a result of a visiting player.
BobWalkover == Row("Bob", NULL, "KEN", Some(2), TRUE, "walkover")
CyVisitor == Row("Cy", NULL, "UGA", Some(1), FALSE, NULL)
RankImports ==
    { << a >> : a \in AnnRows } \cup { << b >> : b \in BobRows }
      \cup { << a, b >> : a \in AnnRows, b \in BobRows }
      \cup { << BobWalkover >>, << CyVisitor >> }

\* The tournaments arrive in id order, each scraped once (app.py scrapes a
\* tournament only when it is not stored yet).
NextTournament == Cardinality(tournaments) + 1

ImportTournament ==
    \E rows \in RankImports :
        /\ NextTournament <= MaxTournaments
        /\ save_tournament(NextTournament, rows)

Recalculate == recalculate_rankings

NextRank == ImportTournament \/ Recalculate

SpecRank == Init /\ [][NextRank]_vars

\* Standings of the backend ranking specification, as parse_tournament gives
\* them: Ann plays every tournament and always performs below Bob.
AnnStanding == parse_row("Ann", "KEN", 1)
BobStanding == parse_row("Bob", "KEN", 2)
BackendStandings == { << AnnStanding >>, << AnnStanding, BobStanding >> }

NextScrape == Cardinality(b_tournaments) + 1

ScrapeStandings ==
    \E rows \in BackendStandings :
        /\ NextScrape <= MaxTournaments
        /\ scrape_tournament(NextScrape, rows)

\* What a player page can give when it shows no FIDE ID: a forfeit, or nothing
\* at all when the fetch failed.
WalkoverPages == { [ fide_id |-> NULL, has_walkover |-> w ] : w \in { Some(TRUE), None } }

EnrichWalkovers == \E tid \in b_tournaments : enrich_tournament_data(tid, WalkoverPages)

RecalculateSeason == recalculate

NextBackend == ScrapeStandings \/ EnrichWalkovers \/ RecalculateSeason

SpecBackend == InitStores /\ [][NextBackend]_vars

\* Imports of the identity specification: one player per standings, under a
\* name in either capitalisation, with no FIDE ID, a blank one or a real one.
IdentityNames == { "Ann", "ANN", "Bob" }
IdentityFideIds == { NULL, "", "F1", "F2" }
IdentityRow(name, fide_id) == Row(name, fide_id, "KEN", Some(1), FALSE, NULL)
IdentityImports == { << IdentityRow(n, f) >> : n \in IdentityNames, f \in IdentityFideIds }

ImportIdentity ==
    \E rows \in IdentityImports :
        /\ NextTournament <= MaxIdentityImports
        /\ save_tournament(NextTournament, rows)

ScrapePlayers ==
    \E rows \in { << AnnStanding >>, << BobStanding >> } :
        /\ NextScrape <= MaxScrapes
        /\ scrape_tournament(NextScrape, rows)

\* A player page with or without a FIDE ID.
FidePages == { [ fide_id |-> f, has_walkover |-> None ] : f \in { NULL, "F1" } }

EnrichFideIds == \E tid \in b_tournaments : enrich_tournament_data(tid, FidePages)

\* PATCH /player/{id}: the request leaves fide_id out, or sends an empty or a
\* real one.
UpdatePlayer == \E p \in DOMAIN b_players, f \in { NULL, "", "F1" } : update_player(p, f)

NextIdent == ImportIdentity \/ ScrapePlayers \/ EnrichFideIds \/ UpdatePlayer

SpecIdent == InitStores /\ [][NextIdent]_vars

\* ===================================================================== claims
\* What the claims read off the legacy store.

\* The stored results of player p that count: home federation, status valid
\* (a missing status counts as valid).
ValidResultIds(p) ==
    { i \in DOMAIN results :
        /\ results[i].player_id = p
        /\ results[i].tournament_id \in tournaments
        /\ players[p].federation = HOME_FEDERATION
        /\ results[i].result_status \in { NULL, "", "valid" } }

ValidCount(p) == Cardinality(ValidResultIds(p))

RECURSIVE SumTprs(_)
SumTprs(ids) ==
    IF ids = {} THEN 0
    ELSE LET i == CHOOSE j \in ids : TRUE
         IN  Val(results[i].tpr) + SumTprs(ids \ { i })

\* The largest total of n of the valid TPRs of player p.
TopSum(p, n) ==
    LET sums == { SumTprs(ids) : ids \in { c \in SUBSET ValidResultIds(p) : Cardinality(c) = n } }
    IN  CHOOSE m \in sums : \A k \in sums : k <= m

RecalculationDone ==
    /\ last_op.name = "recalculate_rankings"
    /\ ~last_op.raised

LatestTime == Cardinality({ ranking_snapshots[i].snapshot_time : i \in DOMAIN ranking_snapshots })

LatestSnapshot == SelectSeq(ranking_snapshots, LAMBDA r : r.snapshot_time = LatestTime)

\* The rank order the recalculation that has just completed wrote (none when
\* it ranked nobody).
RankOrder == IF RecalculationDone /\ player_rankings # {} THEN LatestSnapshot ELSE << >>

Entry(p) == CHOOSE e \in player_rankings : e.player_id = p

BestN(e, n) ==
    CASE n = 1 -> e.best_1 [] n = 2 -> e.best_2 [] n = 3 -> e.best_3 [] n = 4 -> e.best_4
      [] OTHER -> 0

\* The tier of the specification: the largest N with at least N valid results
\* and best_N > 0, else 0.
Tier(p) ==
    LET ns == { n \in 1..4 : ValidCount(p) >= n /\ BestN(Entry(p), n) > 0 }
    IN  IF ns = {} THEN 0 ELSE CHOOSE m \in ns : \A k \in ns : k <= m

\* C1: in the rank order written by a recalculation, of two ranked players the
\* one of the higher tier has the smaller rank whatever the best_N values are,
\* and of two players of the same tier the one with the larger best_N of that
\* tier has the smaller rank.
C1_TierThenBestN ==
    \A i, j \in DOMAIN RankOrder :
        LET a == RankOrder[i]
            b == RankOrder[j]
        IN  /\ Tier(a.player_id) > Tier(b.player_id) => a.rank < b.rank
            /\ ( /\ Tier(a.player_id) = Tier(b.player_id)
                 /\ BestN(Entry(a.player_id), Tier(a.player_id))
                      > BestN(Entry(b.player_id), Tier(b.player_id)) )
               => a.rank < b.rank

\* A tier-4 player ranked above a tier-3 player whose best_3 is larger than the
\* tier-4 player's best_4.
C1_Witness ==
    \E i, j \in DOMAIN RankOrder :
        /\ Tier(RankOrder[i].player_id) = 4
        /\ Tier(RankOrder[j].player_id) = 3
        /\ Entry(RankOrder[j].player_id).best_3 > Entry(RankOrder[i].player_id).best_4
        /\ RankOrder[i].rank < RankOrder[j].rank

\* C2 (as stated): after a recalculation every player with at least 4 valid
\* home results has best_4 = the rounded mean of the 4 highest TPRs and tier 4.
C2_AsStated ==
    RecalculationDone =>
        \A p \in DOMAIN players :
            ValidCount(p) >= 4 =>
                /\ \E e \in player_rankings : e.player_id = p
                /\ 4 * Entry(p).best_4 - TopSum(p, 4) \in -2..2
                /\ _ranking_priority(Entry(p))[1] = 4

\* C2 (amended): after a recalculation every player with at least 4 valid home
\* results has a stored best_4 that is an integer nearest to the mean of the 4
\* highest TPRs, and is of tier 4 exactly when that best_4 is greater than 0.
C2_Best4AndTier ==
    RecalculationDone =>
        \A p \in DOMAIN players :
            ValidCount(p) >= 4 =>
                /\ \E e \in player_rankings : e.player_id = p
                /\ 4 * Entry(p).best_4 - TopSum(p, 4) \in -2..2
                /\ Entry(p).best_4 > 0 <=> _ranking_priority(Entry(p))[1] = 4
                /\ Entry(p).best_4 > 0 <=> Tier(p) = 4

\* A player with 4 valid results whose mean is not an integer, ranked in tier 4.
C2_Witness ==
    /\ RecalculationDone
    /\ \E p \in DOMAIN players :
        /\ ValidCount(p) >= 4
        /\ TopSum(p, 4) % 4 = 3
        /\ Tier(p) = 4

\* What a recalculation would compute from the store as it is.
OutcomeRows(records, snapshot) ==
    [ rankings |-> Range(records),
      order |-> [ k \in DOMAIN snapshot |-> snapshot[k].player_id ] ]

OutcomeWith(ranked, valid) ==
    { OutcomeRows(pair[1], pair[2]) :
        pair \in { << records, _store_ranking_snapshot(records, 0) >> :
                     records \in { ranking_records_of(ranked, valid) } } }

OutcomeFrom(all_results, valid) ==
    UNION { OutcomeWith(ranked, valid) : ranked \in { ranked_players(all_results.keys, valid) } }

OutcomeOf(all_results) ==
    UNION { OutcomeFrom(all_results, valid) : valid \in { valid_results_of(all_results) } }

\* What a recalculation run in the current state would store: the rows of
\* player_rankings and the players in rank order.
RecalculationOutcome ==
    CHOOSE outcome \in UNION { OutcomeOf(all_results) :
                                 all_results \in { get_all_results(players, results, tournaments, tpr_index) } } : TRUE

\* The results that count, in rowid order.
CountingResults ==
    SelectSeq([ i \in DOMAIN results |->
                  [ tournament_id |-> results[i].tournament_id,
                    player_id |-> results[i].player_id,
                    tpr |-> results[i].tpr,
                    counts |-> i \in ValidResultIds(results[i].player_id) ] ],
              LAMBDA r : r.counts)

\* C3 (as stated): a step that adds, changes or removes only results that do
\* not count (visiting federation, or status walkover, incomplete, withdrawn)
\* leaves what a recalculation computes unchanged: ranking rows and rank order.
C3_ExcludedNeverContribute ==
    [][ CountingResults' = CountingResults => RecalculationOutcome' = RecalculationOutcome ]_vars

\* The order of the ranks in the rows of one snapshot.
PlayersByRank(snapshot) == [ k \in DOMAIN snapshot |-> snapshot[k].player_id ]

SnapshotAt(t) == SelectSeq(ranking_snapshots, LAMBDA r : r.snapshot_time = t)

BackendValidIds(p) ==
    { i \in DOMAIN b_results :
        b_results[i].player_id = p /\ is_valid_kenyan_result(b_players, b_results[i]) }

BackendValidCount(p) == Cardinality(BackendValidIds(p))

SeasonRecalculated == last_op.name = "recalculate"

\* C5: when a recalculation has finished, the ranking table holds an entry for
\* exactly the players that have at least one valid home-federation result
\* (player_rankings in the legacy store, the season's rankings in the backend).
C5_FullyRebuilt ==
    /\ RecalculationDone =>
         { e.player_id : e \in player_rankings } = { p \in DOMAIN players : ValidCount(p) >= 1 }
    /\ SeasonRecalculated =>
         { e.player_id : e \in b_rankings }
           = { p \in DOMAIN b_players : BackendValidCount(p) >= 1 }

\* C6: when services.rankings.recalculate has finished, a player with 4 valid
\* results has a smaller current_rank than a player with only 3 valid results.
C6_FourOutrankThree ==
    SeasonRecalculated =>
        \A e, f \in b_rankings :
            BackendValidCount(e.player_id) = 4 /\ BackendValidCount(f.player_id) = 3
                => e.current_rank < f.current_rank

\* What the claims read off an import into the legacy store.
ImportDone == last_op.name = "save_tournament"

\* The players that held the FIDE ID before the import.
FideHolders(fide_id) == { p \in DOMAIN players : players[p].fide_id = fide_id }

\* The players without a FIDE ID that bore the name, in any capitalisation,
\* before the import.
NameMatches(name) ==
    { p \in DOMAIN players : lower(players[p].name) = lower(name) /\ ~Truthy(players[p].fide_id) }

\* The rows of the import whose FIDE ID a player held before the import.
RowsOfKnownFideId(rows) ==
    { k \in DOMAIN rows : Truthy(rows[k].fide_id) /\ FideHolders(rows[k].fide_id) # {} }

\* get_or_create, given a FIDE ID some player of the table holds, returns a
\* holder of that ID and leaves the table as it is, whatever the name.
GetOrCreateByFideId(ps) ==
    \A p \in DOMAIN ps, name \in IdentityNames :
        Truthy(ps[p].fide_id) =>
            /\ get_or_create(ps, name, ps[p].federation, ps[p].fide_id).players = ps
            /\ get_or_create(ps, name, ps[p].federation, ps[p].fide_id).id
                 \in get_by_fide_id(ps, ps[p].fide_id)

\* C7: a row whose FIDE ID a player already holds resolves to a holder of that
\* ID whatever its name, and the import creates players for other rows only;
\* get_or_create does the same on every table the backend store reaches.
C7_FideIdFirst ==
    [][ /\ last_op'.name = "save_tournament" =>
            /\ \A k \in RowsOfKnownFideId(last_op'.rows) :
                   last_op'.resolved[k].id \in FideHolders(last_op'.rows[k].fide_id)
            /\ Len(players') - Len(players)
                 <= Len(last_op'.rows) - Cardinality(RowsOfKnownFideId(last_op'.rows))
        /\ GetOrCreateByFideId(b_players') ]_vars

\* An import has resolved a row to the holder of its FIDE ID although that
\* player bears another name, and the backend store holds a FIDE ID too.
C7_Witness ==
    /\ ImportDone
    /\ \E k \in DOMAIN last_op.rows :
        /\ last_op.resolved[k].how = "fide"
        /\ players[last_op.resolved[k].id].fide_id = last_op.rows[k].fide_id
        /\ lower(players[last_op.resolved[k].id].name) # lower(last_op.rows[k].name)
        /\ Len(players) = 1
    /\ \E p \in DOMAIN b_players : Truthy(b_players[p].fide_id)

\* C8: a player that holds a non-blank FIDE ID holds a non-blank one after
\* every operation, in both stores.
C8_FideIdNeverBlanked ==
    [][ /\ \A p \in DOMAIN players : Truthy(players[p].fide_id) => Truthy(players'[p].fide_id)
        /\ \A p \in DOMAIN b_players :
               Truthy(b_players[p].fide_id) => Truthy(b_players'[p].fide_id) ]_vars

\* C9: the first row of an import, when it has no FIDE ID and players without
\* one bear its name in some capitalisation, resolves to one of them; when it
\* has a FIDE ID that no player holds and such players exist, it resolves to
\* one of them and that player then holds the ID.
C9_NameMerge ==
    [][ (last_op'.name = "save_tournament" /\ last_op'.resolved[1].how # "skipped") =>
            LET row == last_op'.rows[1]
                id == last_op'.resolved[1].id
            IN  /\ (~Truthy(row.fide_id) /\ NameMatches(row.name) # {})
                       => id \in NameMatches(row.name)
                /\ (Truthy(row.fide_id) /\ FideHolders(row.fide_id) = {}
                      /\ NameMatches(row.name) # {})
                       => id \in NameMatches(row.name) /\ players'[id].fide_id = row.fide_id ]_vars

\* An import has merged a row into a player whose name is written in another
\* capitalisation and has stored the row's FIDE ID on that player.
C9_Witness ==
    /\ ImportDone
    /\ last_op.resolved[1].how = "name"
    /\ Truthy(last_op.rows[1].fide_id)
    /\ players[last_op.resolved[1].id].name # last_op.rows[1].name
    /\ players[last_op.resolved[1].id].fide_id = last_op.rows[1].fide_id

\* C10: two rows with the same name, federation and FIDE ID that imports into
\* the same store have resolved, have resolved to the same player id.
C10_StableIdentity ==
    \A a, b \in assigned :
        ( /\ a.store = b.store
          /\ a.name = b.name
          /\ a.federation = b.federation
          /\ a.fide_id = b.fide_id ) => a.id = b.id

\* ============================================================ re-imports
\* add_start_rank.py, rescrape_tournaments.py and chess_results.py call
\* save_tournament for tournaments that are stored already.
ReimportNames == { "Ann", "Bob" }
ReimportFideIds == { NULL, "F1" }
ReimportRows == { IdentityRow(n, f) : n \in ReimportNames, f \in ReimportFideIds }
\* One row, or two rows of one name of which one carries a FIDE ID.
ReimportStandings ==
    { << a >> : a \in ReimportRows }
      \cup { << a, b >> : a, b \in { r \in ReimportRows : r.name = "Ann" } }

\* An import of one of the tournaments, stored or not, that completes or
\* raises at one of its rows.
ImportStandings ==
    \E tid \in 1..MaxReimportTournaments, rows \in ReimportStandings :
        \E raises_at \in 0..Len(rows) :
            save_tournament_with(tid, no_metadata("Grand Prix"), rows, raises_at)

NextReimport == ImportStandings

SpecReimport == InitStores /\ [][NextReimport]_vars

\* An import of tournament tid with the given rows has completed.
Imported(op, tid, rows) ==
    op.name = "save_tournament" /\ op.tournament_id = tid /\ op.rows = rows

\* C11 (as stated): importing the rows of a tournament again right after they
\* were imported leaves the stored players and results as they are, with at
\* most one result per tournament and player.
C11_ReimportChangesNothing ==
    [][ ( /\ last_op.name = "save_tournament"
          /\ Imported(last_op', last_op.tournament_id, last_op.rows) )
        => /\ players' = players
           /\ results' = results
           /\ \A i, j \in DOMAIN results' :
                 ( /\ results'[i].tournament_id = results'[j].tournament_id
                   /\ results'[i].player_id = results'[j].player_id ) => i = j ]_vars

\* ================================================== tournament metadata
\* scrape_nakuru_rd5.py passes metadata keywords; the other callers pass none.
MetadataArgs ==
    { [ name |-> n, start_date |-> sd, end_date |-> ed, short_name |-> sn,
        inferred_short_name |-> isn, location |-> loc, rounds |-> rd ] :
        n \in { "Nakuru Open", "Mavens Open" },
        sd \in { NULL, "2025-11-16", "2025-11-17" },
        ed \in { NULL, "2025-11-18" },
        sn \in { NULL, "NO" },
        isn \in { NULL, "Nakuru" },
        loc \in { NULL, "Thika" },
        rd \in { 0, 9 } }

ImportMetadata ==
    \E tid \in 1..MaxMetadataTournaments, args \in MetadataArgs :
        save_tournament_with(tid, args, << IdentityRow("Ann", NULL) >>, 0)

NextMetadata == ImportMetadata

SpecMetadata == InitStores /\ [][NextMetadata]_vars

\* C12 (as stated): an import of a stored tournament keeps the row and keeps
\* every stored non-null start date, end date, short name, location and round
\* count.
C12_StoredValueKept ==
    [][ ( /\ last_op'.name = "save_tournament"
          /\ last_op'.tournament_id \in DOMAIN tournament_rows )
        => LET old == tournament_rows[last_op'.tournament_id]
               new == tournament_rows'[last_op'.tournament_id]
           IN  /\ old.start_date # NULL => new.start_date = old.start_date
               /\ old.end_date # NULL => new.end_date = old.end_date
               /\ old.short_name # NULL => new.short_name = old.short_name
               /\ old.location # NULL => new.location = old.location
               /\ new.rounds = old.rounds ]_vars

\* ====================================================== imports that fail
AtomicStandings == { << AnnStanding >>, << AnnStanding, BobStanding >>,
                     << BobStanding, AnnStanding >> }

AtomicRows(standings) ==
    [ k \in DOMAIN standings |-> IdentityRow(standings[k].name, standings[k].fide_id) ]

\* An import into the legacy store that completes or raises at one of its rows.
SaveOrRaise ==
    \E rows \in AtomicStandings :
        \E raises_at \in 0..Len(rows) :
            /\ NextTournament <= MaxAtomicImports
            /\ save_tournament_with(NextTournament, no_metadata("Grand Prix"),
                                    AtomicRows(rows), raises_at)

\* A scrape into the backend store that completes or raises at one of its rows.
ScrapeOrRaise ==
    \E rows \in AtomicStandings :
        \E raises_at \in 0..Len(rows) :
            /\ NextScrape <= MaxAtomicImports
            /\ scrape_tournament_with(NextScrape, rows, raises_at)

NextAtomic == SaveOrRaise \/ ScrapeOrRaise

SpecAtomic == InitStores /\ [][NextAtomic]_vars

\* The import that has just raised was of a tournament that was not stored.
RaisedOnNew(name) == last_op.name = name /\ ~last_op.known

\* C13 (as stated): after an import of a new tournament has raised at one of
\* its rows, the store it wrote to holds neither the tournament nor a result of
\* it, in the legacy store and in the backend store.
C13_AllOrNothing ==
    /\ RaisedOnNew("save_tournament raised") =>
          /\ last_op.tournament_id \notin tournaments
          /\ \A i \in DOMAIN results : results[i].tournament_id # last_op.tournament_id
    /\ RaisedOnNew("scrape_tournament raised") =>
          /\ last_op.tournament_id \notin b_tournaments
          /\ \A i \in DOMAIN b_results : b_results[i].tournament_id # last_op.tournament_id

\* ============================================ ChessResultsScraper._request
\* self.base_urls, in the order of the list.
base_urls == << "chess-results.com", "s1.chess-results.com", "s2.chess-results.com" >>

\* path.lstrip("/") on the paths the callers pass.
lstrip(path) == IF path = "/tnr1.aspx" THEN "tnr1.aspx" ELSE path

\* What the network gives one session.request followed by raise_for_status:
\* a response, or one of the subclasses of requests.RequestException
\* (HTTPError is what raise_for_status raises for a 4xx or 5xx response).
RequestExceptions == { "ConnectionError", "Timeout", "HTTPError" }
NetworkOutcomes == { "response" } \cup RequestExceptions

\* except requests.RequestException as exc: last_exc = exc, and the for loop
\* goes on to the next base.
next_base_last(req, exc) == [ req EXCEPT !.last_exc = exc, !.base = Len(base_urls) + 1 ]

next_base(req, exc) == [ req EXCEPT !.last_exc = exc, !.base = @ + 1 ]

\* The call: last_exc = None, the path normalised, the loop at the first base.
\* sent is the trace of the requests the session has sent for this call.
_request_call(method, path) ==
    /\ request.pc = "idle"
    /\ request' = [ pc |-> "loop", method |-> method, path |-> path,
                    normalized_path |-> lstrip(path), base |-> 1, last_exc |-> None,
                    sent |-> << >> ]
    /\ UNCHANGED << stores, scraped, workers >>

\* One pass of the loop body for the base the loop is at.
_request_try(outcome) ==
    /\ request.pc = "loop"
    /\ request.base \in DOMAIN base_urls
    /\ LET url == << base_urls[request.base], request.normalized_path >>
           exc == [ url |-> url, type |-> outcome ]
           tried == [ request EXCEPT !.sent = Append(@, [ url |-> url, outcome |-> outcome ]) ]
       IN  request' = IF outcome = "response"
                      THEN [ pc |-> "returned", response |-> url, sent |-> tried.sent ]
                      ELSE next_base(tried, Some(exc))
    /\ UNCHANGED << stores, scraped, workers >>

\* After the loop: raise RequestException("All chess-results mirrors failed
\* for {path}") from last_exc.
_request_raise ==
    /\ request.pc = "loop"
    /\ request.base \notin DOMAIN base_urls
    /\ request' = [ pc |-> "raised",
                    error |-> [ type |-> "RequestException",
                                message |-> << "All chess-results mirrors failed for",
                                               request.path >>,
                                cause |-> request.last_exc ],
                    sent |-> request.sent ]
    /\ UNCHANGED << stores, scraped, workers >>

\* The caller has the response or the error; the scraper is ready for the next call.
_request_done ==
    /\ request.pc \in { "returned", "raised" }
    /\ request' = [ pc |-> "idle" ]
    /\ UNCHANGED << stores, scraped, workers >>

RequestPaths == { "tnr1.aspx", "/tnr1.aspx" }

NextRequest ==
    \/ \E method \in { "GET", "POST" }, path \in RequestPaths : _request_call(method, path)
    \/ \E outcome \in NetworkOutcomes : _request_try(outcome)
    \/ _request_raise
    \/ _request_done

SpecRequest == InitStores /\ [][NextRequest]_vars

Sent == IF request.pc = "idle" THEN << >> ELSE request.sent

Failed(k) == Sent[k].outcome \in RequestExceptions

\* C14: the k-th request of a call goes to the k-th mirror (listed order, one
\* attempt per host); every request but the last has failed; a call returns
\* the response of the host it contacted last, and raises only when every
\* mirror has been contacted and has failed.
C14_OrderedFailover ==
    /\ Len(Sent) <= Len(base_urls)
    /\ \A k \in DOMAIN Sent : Sent[k].url[1] = base_urls[k]
    /\ \A k \in DOMAIN Sent : k < Len(Sent) => Failed(k)
    /\ request.pc = "loop" => \A k \in DOMAIN Sent : Failed(k)
    /\ request.pc = "returned" =>
          /\ Sent # << >>
          /\ Sent[Len(Sent)].outcome = "response"
          /\ request.response = Sent[Len(Sent)].url
    /\ request.pc = "raised" =>
          /\ Len(Sent) = Len(base_urls)
          /\ \A k \in DOMAIN Sent : Failed(k)

\* The second mirror answered after the first failed; the third was not contacted.
C14_Witness ==
    /\ request.pc = "returned"
    /\ Len(Sent) = 2
    /\ Failed(1)
    /\ request.response[1] = base_urls[2]

\* All mirrors failed and the call raised.
C14_WitnessRaised ==
    /\ request.pc = "raised"
    /\ Len(Sent) = Len(base_urls)

\* C15 (as stated): the error raised when all mirrors failed carries the
\* failure cause of every host that was tried.
C15_EveryCauseCarried ==
    request.pc = "raised" =>
        \A k \in DOMAIN Sent :
            Some([ url |-> Sent[k].url, type |-> Sent[k].outcome ]) \in { request.error.cause }

\* ================================= backend/scraper/client._extract_round_count
\* A tournament page, as far as _extract_round_count reads it:
\*   final_ranking  the N of the first "Final Ranking ... after N Rounds" in the
\*                  text, None when the text has no such phrase;
\*   rd             the "Rd.N" of the text in order, each with the character
\*                  that follows it;
\*   details        the table rows of two cells or more: label and value cell;
\*   links          the N of the "rd=N" of the hrefs, in order.
MaxOf(ns) == CHOOSE m \in ns : \A n \in ns : n <= m

\* int(text) of a value cell: None stands for the ValueError.
int(cell) == IF cell = "9" THEN Some(9) ELSE None

\* re.search(r"Rd\.(\d+)[^,\d]", text): some "Rd.N" is followed by a character
\* that is neither a comma nor a digit.
rd_search(html) == \E k \in DOMAIN html.rd : html.rd[k].next # ","

\* The rows of the details loop that return: label containing "number of
\* rounds", value an integer.
round_rows(html) ==
    SelectSeq(html.details,
              LAMBDA row : row.label = "Number of rounds" /\ int(row.value) # None)

\* The fallback over the links: max_round starts at 1, and a max_round of 1
\* gives 6.
max_rd_link(html) ==
    LET max_round == MaxOf({ 1 } \cup Range(html.links))
    IN  IF max_round <= 1 THEN 6 ELSE max_round

_extract_round_count_links_first(html) ==
    IF html.links # << >> THEN max_rd_link(html)
    ELSE IF html.final_ranking # None THEN Val(html.final_ranking)
    ELSE 6

_extract_round_count(html) ==
    IF html.final_ranking # None THEN Val(html.final_ranking)
    ELSE IF rd_search(html) THEN MaxOf({ html.rd[k].n : k \in DOMAIN html.rd })
    ELSE IF round_rows(html) # << >> THEN Val(int(round_rows(html)[1].value))
    ELSE max_rd_link(html)

extract_round_count(html) ==
    /\ scraped' = [ by |-> "_extract_round_count", html |-> html,
                    returned |-> _extract_round_count(html) ]
    /\ UNCHANGED << stores, request, workers >>

RdTexts ==
    LET rd == { [ n |-> n, next |-> c ] : n \in { 5, 7 }, c \in { ",", " " } }
    IN  { << >> } \cup { << a >> : a \in rd } \cup { << a, b >> : a, b \in rd }

DetailRows ==
    LET row(l, v) == [ label |-> l, value |-> v ]
    IN  { << >>,
          << row("Number of rounds", "9") >>,
          << row("Number of rounds", "nine") >>,
          << row("Federation", "9") >>,
          << row("Number of rounds", "nine"), row("Number of rounds", "9") >> }

RoundLinks == { << >>, << 1 >>, << 1, 1 >>, << 1, 6 >>, << 6, 4 >> }

RoundPages ==
    { [ final_ranking |-> fr, rd |-> rd, details |-> d, links |-> l ] :
        fr \in { None, Some(8) }, rd \in RdTexts, d \in DetailRows, l \in RoundLinks }

ExtractRoundCount == \E html \in RoundPages : extract_round_count(html)

NextRounds == ExtractRoundCount

SpecRounds == InitStores /\ [][NextRounds]_vars

RoundsExtracted == scraped.by = "_extract_round_count"

\* The value cell of the first details row labelled "Number of rounds" whose
\* value is a number, if there is one.
NumberOfRounds(html) ==
    LET ks == { k \in DOMAIN html.details :
                  html.details[k].label = "Number of rounds" /\ html.details[k].value = "9" }
    IN  IF ks = {} THEN None ELSE Some(9)

\* What the five heuristics find on a page: None when a heuristic finds nothing.
\* Found2 and Found4 are the second and fourth heuristic as stated.
Found1(html) == html.final_ranking
Found2(html) == IF html.rd = << >> THEN None ELSE Some(MaxOf({ html.rd[k].n : k \in DOMAIN html.rd }))
Found3(html) == NumberOfRounds(html)
Found4(html) == IF html.links = << >> THEN None ELSE Some(MaxOf(Range(html.links)))

\* The second heuristic as the code has it: it finds something only when some
\* "Rd.N" is followed by a character other than a comma or a digit.
Found2Guarded(html) ==
    IF \A k \in DOMAIN html.rd : html.rd[k].next = "," THEN None ELSE Found2(html)

\* The fourth heuristic as the code has it: it finds something only when a
\* link names a round above 1.
Found4AboveOne(html) ==
    IF Found4(html) # None /\ Val(Found4(html)) > 1 THEN Found4(html) ELSE None

\* The first of the findings that is not None, else the default 6.
FirstFound(findings) ==
    LET ks == { k \in DOMAIN findings : findings[k] # None }
    IN  IF ks = {} THEN 6 ELSE Val(findings[CHOOSE k \in ks : \A j \in ks : k <= j])

\* C16 (as stated): the round count is what the first of the heuristics that
\* finds something gives, in the order: phrase, maximum Rd.N, details row,
\* maximum link round, default.
C16_AsStated ==
    RoundsExtracted =>
        scraped.returned =
            FirstFound(<< Found1(scraped.html), Found2(scraped.html), Found3(scraped.html),
                          Found4(scraped.html) >>)

\* C16 (amended): the same order, where the Rd.N heuristic finds something
\* only when some Rd.N is followed by neither a comma nor a digit, and the link
\* heuristic only when a link names a round above 1.
C16_OrderedFallback ==
    RoundsExtracted =>
        scraped.returned =
            FirstFound(<< Found1(scraped.html), Found2Guarded(scraped.html),
                          Found3(scraped.html), Found4AboveOne(scraped.html) >>)

\* The phrase says 8 rounds, the links say 6 and the Rd list 7: 8 is returned.
C16_Witness ==
    /\ RoundsExtracted
    /\ scraped.html.final_ranking = Some(8)
    /\ scraped.html.links = << 1, 6 >>
    /\ scraped.html.rd # << >>
    /\ scraped.returned = 8

\* ================================================== standings table parsers
\* The header row of the CRs1 table, lower-cased, and the index of a header.
StandingsHeaders == << "rk.", "sno", "name", "fed", "rtg", "pts.", "rp" >>

index(headers, h) == CHOOSE i \in DOMAIN headers : headers[i] = h

\* The numbers the cells of the tables carry; any other text is not a number.
NumberTexts == { "1", "2", "3", "4", "5", "1500", "1600" }

number(text) ==
    CASE text = "1" -> 1 [] text = "2" -> 2 [] text = "3" -> 3 [] text = "4" -> 4
      [] text = "5" -> 5 [] text = "1500" -> 1500 [] text = "1600" -> 1600

\* int(re.sub(r"\D", "", text) or "0") on those texts.
digits(text) == IF text \in NumberTexts THEN number(text) ELSE 0

\* backend/scraper/parser: col_map of the headers, and get_cell.
col_map(headers) ==
    LET key(h) == CASE h = "rk." -> "rank" [] h = "sno" -> "start_rank" [] h = "name" -> "name"
                    [] h = "sex" -> "sex" [] h = "fed" -> "federation" [] h = "rtg" -> "rating"
                    [] h = "pts." -> "points" [] h = "rp" -> "tpr" [] OTHER -> "none"
    IN  [ k \in { key(headers[i]) : i \in DOMAIN headers } \ { "none" } |->
            CHOOSE i \in DOMAIN headers : key(headers[i]) = k ]

get_cell(cells, cols, key) ==
    IF key \notin DOMAIN cols THEN ""
    ELSE IF cols[key] > Len(cells) THEN ""
    ELSE cells[cols[key]]

\* _parse_result_row: None when the rank or the name is missing or the rank
\* is 0, else the result.
_parse_result_row(cells, cols) ==
    LET rank_str == get_cell(cells, cols, "rank")
        name == get_cell(cells, cols, "name")
        rank == digits(rank_str)
        start_rank == digits(get_cell(cells, cols, "start_rank"))
        tpr == digits(get_cell(cells, cols, "tpr"))
    IN  IF rank_str = "" \/ name = "" THEN None
        ELSE IF rank = 0 THEN None
        ELSE Some([ rank |-> rank,
                    start_rank |-> IF start_rank # 0 THEN start_rank ELSE rank,
                    name |-> name,
                    federation |-> get_cell(cells, cols, "federation"),
                    points |-> digits(get_cell(cells, cols, "points")),
                    tpr |-> IF tpr = 0 THEN None ELSE Some(tpr) ])

\* _parse_standings_table: rows of fewer than 5 cells and rows that give no
\* result are skipped.
RECURSIVE parse_rows(_, _, _, _)
parse_rows(rows, cols, i, parsed) ==
    IF i > Len(rows) THEN parsed
    ELSE IF Len(rows[i]) < 5 THEN parse_rows(rows, cols, i + 1, parsed)
    ELSE LET result == _parse_result_row(rows[i], cols)
         IN  parse_rows(rows, cols, i + 1,
                        IF result # None THEN Append(parsed, Val(result)) ELSE parsed)

_parse_standings_table(headers, rows) ==
    [ raised |-> FALSE, results |-> parse_rows(rows, col_map(headers), 1, << >>) ]

\* chess_results.py _parse_standings: the conversions of one row that raise
\* ValueError: float() of the points, int() of the rank and of the start rank
\* (the rating is converted only when it is not blank).
row_raises(headers, cells) ==
    \/ cells[index(headers, "pts.")] \notin NumberTexts
    \/ cells[index(headers, "rk.")] \notin NumberTexts
    \/ cells[index(headers, "sno")] \notin NumberTexts
    \/ cells[index(headers, "rtg")] \notin NumberTexts \cup { "" }

\* The result of one row; the FIDE ID and the walkover flag come from the
\* player page, which the tables of this specification do not have.
standings_result(headers, cells) ==
    [ rank |-> number(cells[index(headers, "rk.")]),
      start_rank |-> number(cells[index(headers, "sno")]),
      name |-> cells[index(headers, "name")],
      federation |-> "KEN",
      points |-> number(cells[index(headers, "pts.")]),
      tpr |-> Some(digits(cells[index(headers, "rp")])) ]

\* Rows shorter than the header and rows of another federation are skipped;
\* nothing catches the ValueError of a row, which ends the parse.
RECURSIVE standings_rows(_, _, _, _)
standings_rows(headers, rows, i, parsed) ==
    IF i > Len(rows) THEN [ raised |-> FALSE, results |-> parsed ]
    ELSE IF Len(rows[i]) < Len(headers) THEN standings_rows(headers, rows, i + 1, parsed)
    ELSE IF rows[i][index(headers, "fed")] # "KEN" THEN standings_rows(headers, rows, i + 1, parsed)
    ELSE IF row_raises(headers, rows[i]) THEN [ raised |-> TRUE, results |-> << >> ]
    ELSE standings_rows(headers, rows, i + 1,
                        Append(parsed, standings_result(headers, rows[i])))

_parse_standings(headers, rows) == standings_rows(headers, rows, 1, << >>)

parse_backend(headers, rows) ==
    /\ scraped' = [ by |-> "_parse_standings_table", rows |-> rows,
                    returned |-> _parse_standings_table(headers, rows) ]
    /\ UNCHANGED << stores, request, workers >>

parse_legacy(headers, rows) ==
    /\ scraped' = [ by |-> "_parse_standings", rows |-> rows,
                    returned |-> _parse_standings(headers, rows) ]
    /\ UNCHANGED << stores, request, workers >>

\* Rows of a table: two complete ones, two that stop before the last header,
\* one without a rank and one without a name.
TableRows ==
    { << "1", "1", "Ann", "KEN", "1500", "5", "1600" >>,
      << "2", "2", "Bob", "KEN", "1500", "4", "1500" >>,
      << "3", "3", "Cy", "KEN", "1500" >>,
      << "3", "3" >>,
      << "", "4", "Dan", "KEN", "1500", "3", "1500" >>,
      << "4", "4", "", "KEN", "1500", "3", "1500" >> }

Tables == UNION { [ 1..n -> TableRows ] : n \in 1..MaxTableRows }

ParseBackend == \E rows \in Tables : parse_backend(StandingsHeaders, rows)
ParseLegacy == \E rows \in Tables : parse_legacy(StandingsHeaders, rows)

NextParse == ParseBackend \/ ParseLegacy

SpecParse == InitStores /\ [][NextParse]_vars

Parsed == scraped.by \in { "_parse_standings_table", "_parse_standings" }

\* A row as long as the header, with a rank and a name.
WellFormed(cells) ==
    /\ Len(cells) >= Len(StandingsHeaders)
    /\ cells[index(StandingsHeaders, "rk.")] # ""
    /\ cells[index(StandingsHeaders, "name")] # ""

NamesOf(rows) == [ k \in DOMAIN rows |-> rows[k][index(StandingsHeaders, "name")] ]

\* C17 (as stated): each parser returns the well-formed rows of the table, all
\* of them and in order, and drops the malformed ones.
C17_MalformedDropped ==
    Parsed =>
        /\ ~scraped.returned.raised
        /\ [ k \in DOMAIN scraped.returned.results |-> scraped.returned.results[k].name ]
             = NamesOf(SelectSeq(scraped.rows, WellFormed))

\* ========================================================= ResultValidator
\* A player page, as far as get_player_game_results reads it:
\*   response    "page", or "RequestException" when session.get raises;
\*   table       whether a CRs1 table with "Rd." in its text exists;
\*   cells       the third cell of each data row of that table;
\*   table_text  the phrases in the text of that table;
\*   page_text   the phrases in the text of the page outside that table.
ResultCells == { "1", "0", "+", "-", "1K" }

\* The characters of a result cell.
chars(cell) ==
    CASE cell = "1" -> { "1" } [] cell = "0" -> { "0" } [] cell = "+" -> { "+" }
      [] cell = "-" -> { "-" } [] cell = "1K" -> { "1", "K" }

\* str.lower() on the phrases.
lower_text(phrases) == { IF ph = "Withdrawn" THEN "withdrawn" ELSE ph : ph \in phrases }

\* _determine_result_status, with the checks in the order walkover, incomplete,
\* withdrawn swapped to incomplete, walkover, withdrawn.
_determine_result_status_incomplete_first(game_results, results_text) ==
    IF "not paired" \in results_text THEN "incomplete"
    ELSE IF \E k \in DOMAIN game_results : chars(game_results[k]) \cap { "+", "-", "K" } # {}
    THEN "walkover"
    ELSE IF "withdrawn" \in lower_text(results_text) THEN "withdrawn"
    ELSE "valid"

_determine_result_status(game_results, results_text) ==
    IF \E k \in DOMAIN game_results : chars(game_results[k]) \cap { "+", "-", "K" } # {}
    THEN "walkover"
    ELSE IF "not paired" \in results_text THEN "incomplete"
    ELSE IF "withdrawn" \in lower_text(results_text) THEN "withdrawn"
    ELSE "valid"

\* get_player_game_results: ([], "unknown") when anything raises; without a
\* results table the game results and the results text are empty.
get_player_game_results(page) ==
    IF page.response # "page" THEN [ game_results |-> << >>, status |-> "unknown" ]
    ELSE LET game_results == IF page.table THEN page.cells ELSE << >>
             results_text == IF page.table THEN page.table_text ELSE {}
         IN  [ game_results |-> game_results,
               status |-> _determine_result_status(game_results, results_text) ]

classify(page) ==
    /\ scraped' = [ by |-> "get_player_game_results", page |-> page,
                    returned |-> get_player_game_results(page) ]
    /\ UNCHANGED << stores, request, workers >>

RoundCells == UNION { [ 1..n -> ResultCells ] : n \in 0..MaxRounds }

PlayerPages ==
    { [ response |-> "page", table |-> TRUE, cells |-> c, table_text |-> t, page_text |-> o ] :
        c \in RoundCells, t \in SUBSET { "not paired", "withdrawn", "Withdrawn" },
        o \in SUBSET { "withdrawn" } }
      \cup { [ response |-> r, table |-> FALSE, cells |-> << >>, table_text |-> {},
               page_text |-> o ] :
               r \in { "page", "RequestException" }, o \in SUBSET { "withdrawn" } }

Classify == \E page \in PlayerPages : classify(page)

NextClassify == Classify

SpecClassify == InitStores /\ [][NextClassify]_vars

Classified == scraped.by = "get_player_game_results" /\ scraped.page.response = "page"

\* The markers of the statement: a round-result cell that is exactly "+" or
\* "-", "not paired" on the page, "withdrawn" in the text of the page.
BareMarker(page) == \E k \in DOMAIN page.cells : page.cells[k] \in { "+", "-" }
NotPaired(page) == "not paired" \in page.table_text \cup page.page_text
Withdrawn(page) == "withdrawn" \in lower_text(page.table_text \cup page.page_text)

\* The markers as the code reads them: "+", "-" or "K" anywhere in a
\* round-result cell, and the two phrases in the text of the results table.
CellMarker(page) ==
    \E k \in DOMAIN page.cells : \E ch \in { "+", "-", "K" } : ch \in chars(page.cells[k])
NotPairedInTable(page) == "not paired" \in page.table_text
WithdrawnInTable(page) == \E ph \in page.table_text : ph \in { "withdrawn", "Withdrawn" }

\* The status of the first of three markers that is present, else valid.
FirstStatus(walkover, incomplete, withdrawn) ==
    CASE walkover -> "walkover"
      [] ~walkover /\ incomplete -> "incomplete"
      [] ~walkover /\ ~incomplete /\ withdrawn -> "withdrawn"
      [] OTHER -> "valid"

\* C18 (as stated): the status of a fetched page is walkover for a bare "+" or
\* "-" cell, else incomplete for "not paired", else withdrawn for "withdrawn"
\* in the page text, else valid.
C18_AsStated ==
    Classified =>
        scraped.returned.status =
            FirstStatus(BareMarker(scraped.page), NotPaired(scraped.page), Withdrawn(scraped.page))

\* C18 (amended): the same order, with the walkover marker being a "+", "-" or
\* "K" anywhere in a round-result cell and the two phrases looked for in the
\* text of the results table only.
C18_MarkersInOrder ==
    Classified =>
        scraped.returned.status =
            FirstStatus(CellMarker(scraped.page), NotPairedInTable(scraped.page),
                        WithdrawnInTable(scraped.page))

\* A page with all three markers is classified walkover.
C18_Witness ==
    /\ Classified
    /\ BareMarker(scraped.page)
    /\ NotPairedInTable(scraped.page)
    /\ WithdrawnInTable(scraped.page)
    /\ scraped.returned.status = "walkover"

\* ============================ validate_existing_results.validate_tournament_results
\* The pass over the results of one tournament: the status that
\* get_player_game_results returns for the page of each result is written to
\* the result, the updates are committed, and the rankings are recalculated.
\* pages gives the player page of each result of the tournament.
validated_results(tid, pages) ==
    [ i \in DOMAIN results |->
        IF results[i].tournament_id = tid
        THEN [ results[i] EXCEPT !.result_status = get_player_game_results(pages[i]).status ]
        ELSE results[i] ]

validate_tournament_results(tid, pages) ==
    /\ Cardinality({ ranking_snapshots[i].snapshot_time : i \in DOMAIN ranking_snapshots })
         < MaxSnapshots
    /\ results' = validated_results(tid, pages)
    /\ scraped' = [ by |-> "validate_tournament_results", tournament_id |-> tid,
                    pages |-> pages,
                    returned |-> [ i \in DOMAIN pages |-> get_player_game_results(pages[i]) ] ]
    /\ \E validated \in { validated_results(tid, pages) } :
          recalculate_from(get_all_results(players, validated, tournaments, tpr_index))
    /\ UNCHANGED << players, tournaments, tournament_rows, tpr_index, assigned >>
    /\ UNCHANGED << backend, request, workers >>

\* Player pages of a validation pass: no marker, a fetch that raises, a cell
\* with a K, a forfeit cell, "not paired" in the table, "withdrawn" outside it.
ValidationPage(response, cells, table_text, page_text) ==
    [ response |-> response, table |-> response = "page", cells |-> cells,
      table_text |-> table_text, page_text |-> page_text ]

ValidationPages ==
    { ValidationPage("page", << "1", "0" >>, {}, {}),
      ValidationPage("RequestException", << >>, {}, {}),
      ValidationPage("page", << "1K" >>, {}, {}),
      ValidationPage("page", << "+" >>, {}, {}),
      ValidationPage("page", << "1" >>, { "not paired" }, {}),
      ValidationPage("page", << "1" >>, {}, { "withdrawn" }) }

ImportForValidation ==
    \E rows \in { << IdentityRow("Ann", NULL) >>,
                   << IdentityRow("Ann", NULL), IdentityRow("Bob", NULL) >> } :
        /\ NextTournament <= MaxValidatedTournaments
        /\ save_tournament(NextTournament, rows)

ValidateResults ==
    \E tid \in tournaments :
        \E pages \in [ { i \in DOMAIN results : results[i].tournament_id = tid } -> ValidationPages ] :
            validate_tournament_results(tid, pages)

NextValidate == ImportForValidation \/ ValidateResults

SpecValidate == InitStores /\ [][NextValidate]_vars

\* None of the markers of the statement is on the page (a page that could not
\* be fetched shows none).
NoMarker(page) == ~BareMarker(page) /\ ~NotPaired(page) /\ ~Withdrawn(page)

\* C19 (as stated): after a validation pass, the status returned and stored for
\* every result whose player page shows none of the markers is valid.
C19_ValidWithoutEvidence ==
    scraped.by = "validate_tournament_results" =>
        \A i \in DOMAIN scraped.pages :
            NoMarker(scraped.pages[i]) =>
                /\ scraped.returned[i].status = "valid"
                /\ results[i].result_status = "valid"

\* ================================== backend/scraper/enricher.enrich_tournament
\* A player detail page, as far as the enricher reads it:
\*   links    the links in order: whether the href is a FIDE profile address,
\*            the first run of digits after a "/" of the href, the link text;
\*   label    the digits after a "FIDE-ID:" label of the text, NULL without it;
\*   forfeit  whether some table cell is exactly "+" or "-".
\* \d{6,} and "isdigit() and len(text) >= 6" on the texts of the pages.
SixDigits == { "10800018", "10800026" }

fide_links(html) ==
    SelectSeq(html.links,
              LAMBDA link : link.fide /\ (link.href \in SixDigits \/ link.text \in SixDigits))

get_fide_id_from_player_page(html) ==
    IF fide_links(html) # << >>
    THEN LET link == fide_links(html)[1]
         IN  IF link.href \in SixDigits THEN link.href ELSE link.text
    ELSE IF html.label \in SixDigits THEN html.label
    ELSE NULL

has_walkover(html) == html.forfeit

\* enrich_player for a fetched page.
enrich_player(html) ==
    [ fide_id |-> get_fide_id_from_player_page(html), has_walkover |-> Some(has_walkover(html)) ]

\* The body of the loop for one start number: response is the page that
\* fetch_player_page returned or the exception it raised. A record without an
\* "error" key has error NULL.
enrich_entry_flag_false(snr, response) ==
    IF response.raised = NULL
    THEN [ start_number |-> snr, fide_id |-> enrich_player(response.html).fide_id,
           has_walkover |-> enrich_player(response.html).has_walkover, error |-> NULL ]
    ELSE [ start_number |-> snr, fide_id |-> NULL, has_walkover |-> Some(FALSE),
           error |-> response.raised ]

enrich_entry(snr, response) ==
    IF response.raised = NULL
    THEN [ start_number |-> snr, fide_id |-> enrich_player(response.html).fide_id,
           has_walkover |-> enrich_player(response.html).has_walkover, error |-> NULL ]
    ELSE [ start_number |-> snr, fide_id |-> NULL, has_walkover |-> None,
           error |-> response.raised ]

RECURSIVE enrich_entries(_, _, _, _)
enrich_entries(start_numbers, responses, k, entries) ==
    IF k > Len(start_numbers) THEN entries
    ELSE enrich_entries(start_numbers, responses, k + 1,
                        Append(entries, enrich_entry(start_numbers[k], responses[k])))

\* responses[k] is what the k-th fetch of the call gives.
enrich_tournament(tournament_id, start_numbers, responses) ==
    /\ scraped' = [ by |-> "enrich_tournament", tournament_id |-> tournament_id,
                    start_numbers |-> start_numbers, responses |-> responses,
                    returned |-> enrich_entries(start_numbers, responses, 1, << >>) ]
    /\ UNCHANGED << stores, request, workers >>

DetailLinks ==
    LET link(fide, href, text) == [ fide |-> fide, href |-> href, text |-> text ]
    IN  { << >>,
          << link(TRUE, "10800018", "10800018") >>,
          << link(TRUE, "", "10800018") >>,
          << link(TRUE, "12345", "Ann") >>,
          << link(FALSE, "10800018", "Ann") >> }

DetailPages ==
    { [ links |-> l, label |-> lb, forfeit |-> f ] :
        l \in DetailLinks, lb \in { NULL, "10800026", "12345" }, f \in BOOLEAN }

FetchResponses ==
    { [ raised |-> NULL, html |-> html ] : html \in DetailPages }
      \cup { [ raised |-> "ConnectError", html |-> [ links |-> << >>, label |-> NULL,
                                                    forfeit |-> FALSE ] ] }

\* The start numbers n, ..., 1 of the results that need enrichment.
StartNumbers == { [ k \in 1..n |-> n + 1 - k ] : n \in 1..MaxStartNumbers }

EnrichTournament ==
    \E start_numbers \in StartNumbers :
        \E responses \in [ DOMAIN start_numbers -> FetchResponses ] :
            enrich_tournament(1, start_numbers, responses)

NextEnrich == EnrichTournament

SpecEnrich == InitStores /\ [][NextEnrich]_vars

Enriched == scraped.by = "enrich_tournament"

\* No FIDE profile link of the page and no label carries an ID.
NoFideIdOn(html) ==
    /\ \A k \in DOMAIN html.links :
          html.links[k].fide => html.links[k].href \notin SixDigits /\ html.links[k].text \notin SixDigits
    /\ html.label \notin SixDigits

\* C20: enrich_tournament returns one entry per requested start number, in
\* request order; the entry of a fetch that raised has an error, no FIDE ID and
\* no walkover flag; the entry of a fetched page has no error and a walkover
\* flag, and no FIDE ID when the page shows none.
C20_OneEntryPerStartNumber ==
    Enriched =>
        /\ Len(scraped.returned) = Len(scraped.start_numbers)
        /\ \A k \in DOMAIN scraped.start_numbers :
              LET entry == scraped.returned[k]
                  response == scraped.responses[k]
              IN  /\ entry.start_number = scraped.start_numbers[k]
                  /\ response.raised # NULL =>
                        /\ entry.error # NULL
                        /\ entry.fide_id = NULL
                        /\ entry.has_walkover = None
                  /\ response.raised = NULL =>
                        /\ entry.error = NULL
                        /\ entry.has_walkover = Some(response.html.forfeit)
                        /\ NoFideIdOn(response.html) => entry.fide_id = NULL
                        /\ ~NoFideIdOn(response.html) => entry.fide_id \in SixDigits

\* The first fetch raised; the second page was still fetched and gave a FIDE ID.
C20_Witness ==
    /\ Enriched
    /\ Len(scraped.start_numbers) = 2
    /\ scraped.responses[1].raised # NULL
    /\ scraped.returned[1].error # NULL
    /\ scraped.responses[2].raised = NULL
    /\ scraped.returned[2].fide_id = "10800018"
    /\ scraped.returned[2].error = NULL

\* ======================================================= ranking snapshots
\* The snapshot rows a step has added after the rows that were stored.
Appended == SubSeq(ranking_snapshots', Len(ranking_snapshots) + 1, Len(ranking_snapshots'))

\* C21: no step changes or removes a stored snapshot row, and a recalculation
\* that completes appends one row per ranked player, all with one timestamp
\* that no stored row has, with the ranks 1..n each used once.
C21_SnapshotsAppendOnly ==
    [][ /\ Len(ranking_snapshots') >= Len(ranking_snapshots)
        /\ SubSeq(ranking_snapshots', 1, Len(ranking_snapshots)) = ranking_snapshots
        /\ ( last_op'.name = "recalculate_rankings" /\ ~last_op'.raised ) =>
              /\ Len(Appended) = Cardinality(player_rankings')
              /\ { Appended[k].player_id : k \in DOMAIN Appended }
                   = { e.player_id : e \in player_rankings' }
              /\ \A k \in DOMAIN Appended : Appended[k].rank = k
              /\ \A j, k \in DOMAIN Appended : Appended[j].snapshot_time = Appended[k].snapshot_time
              /\ \A k \in DOMAIN Appended : \A i \in DOMAIN ranking_snapshots :
                    ranking_snapshots[i].snapshot_time # Appended[k].snapshot_time
        /\ last_op'.name # "recalculate_rankings" => Appended = << >> ]_vars

\* Two recalculations have each written the rows of two ranked players.
C21_Witness ==
    /\ RecalculationDone
    /\ Len(ranking_snapshots) = 4
    /\ Len(SnapshotAt(1)) = 2
    /\ Len(SnapshotAt(2)) = 2

\* ============================================================ rank changes
\* ----------------------------------------------- Database.get_rank_changes
\* LIMIT 10 of the snapshot_time query.
SNAPSHOT_TIME_LIMIT == 10

\* SELECT DISTINCT snapshot_time ... ORDER BY snapshot_time DESC LIMIT 10.
snapshot_times(snapshots) ==
    LET times == { snapshots[i].snapshot_time : i \in DOMAIN snapshots }
        n == IF Cardinality(times) < SNAPSHOT_TIME_LIMIT THEN Cardinality(times)
             ELSE SNAPSHOT_TIME_LIMIT
    IN  [ k \in 1..n |-> CHOOSE t \in times : Cardinality({ u \in times : u > t }) = k - 1 ]

fetch_snapshot_rows(snapshots, snapshot_time) ==
    SelectSeq(snapshots, LAMBDA r : r.snapshot_time = snapshot_time)

\* sorted((rank, player_id) ...) of the rows within the top N: two sorted lists
\* are equal exactly when they hold the same pairs, a rank being used once in
\* a snapshot.
top_signature(rows, top_n) ==
    { << rows[i].rank, rows[i].player_id >> : i \in { j \in DOMAIN rows : rows[j].rank <= top_n } }

\* The loop over snapshot_times[1:]: the position of the first candidate whose
\* signature differs from the latest one's (0 when the loop ends without one).
previous_position(snapshots, times, top_n) ==
    LET differing == { k \in 2..Len(times) :
                         top_signature(fetch_snapshot_rows(snapshots, times[k]), top_n)
                           # top_signature(fetch_snapshot_rows(snapshots, times[1]), top_n) }
    IN  IF differing = {} THEN 0 ELSE CHOOSE k \in differing : \A j \in differing : k <= j

has_best4(row) == row.tournaments_played >= 4 /\ row.best_4 > 0

\* The entry of one row of the latest snapshot; previous_rows holds at most
\* one row of the player. The snapshot columns are never NULL, so
\* prev_has_data is true.
rank_change_entry(row, previous_rows) ==
    IF previous_rows = << >>
    THEN [ rank_change |-> None, previous_rank |-> None, is_new |-> TRUE ]
    ELSE IF has_best4(row) /\ ~has_best4(previous_rows[1])
    THEN [ rank_change |-> None, previous_rank |-> Some(previous_rows[1].rank), is_new |-> TRUE ]
    ELSE [ rank_change |-> Some(previous_rows[1].rank - row.rank),
           previous_rank |-> Some(previous_rows[1].rank), is_new |-> FALSE ]

rank_changes_between(latest_rows, previous_rows, top_n) ==
    [ player_id \in { latest_rows[i].player_id :
                        i \in { j \in DOMAIN latest_rows : latest_rows[j].rank <= top_n } } |->
        rank_change_entry(
            latest_rows[CHOOSE i \in DOMAIN latest_rows : latest_rows[i].player_id = player_id],
            SelectSeq(previous_rows, LAMBDA r : r.player_id = player_id)) ]

get_rank_changes_at(snapshots, times, top_n) ==
    IF Len(times) < 2 \/ previous_position(snapshots, times, top_n) = 0
    THEN << >>
    ELSE rank_changes_between(
             fetch_snapshot_rows(snapshots, times[1]),
             fetch_snapshot_rows(snapshots, times[previous_position(snapshots, times, top_n)]),
             top_n)

get_rank_changes(top_n) ==
    /\ scraped' = [ by |-> "get_rank_changes", top_n |-> top_n,
                    changes |-> get_rank_changes_at(ranking_snapshots,
                                                    snapshot_times(ranking_snapshots), top_n) ]
    /\ UNCHANGED << stores, request, workers >>

\* ------------------------------------- backend rank change (services, routes)
get_rank_change(current, previous) ==
    IF previous = None THEN None ELSE Some(current - Val(previous))

\* get_rankings: every ranking row of the season with its rank_change added.
get_rankings(table) ==
    { [ player_id |-> r.player_id, current_rank |-> r.current_rank,
        previous_rank |-> r.previous_rank,
        rank_change |-> get_rank_change(r.current_rank, r.previous_rank) ] : r \in table }

\* ------------------------------------------- rank change specification
\* Two tournaments, the second of which can bring a better player, and enough
\* recalculations to fill the snapshot_time query.
MaxChangeTournaments == 2
MaxChangeSnapshots == 11
TopNs == { 1, 2 }

ChangeImports ==
    { << Row("Ann", NULL, "KEN", Some(1), FALSE, NULL) >>,
      << Row("Bob", NULL, "KEN", Some(2), FALSE, NULL) >>,
      << Row("Ann", NULL, "KEN", Some(1), FALSE, NULL),
         Row("Bob", NULL, "KEN", Some(2), FALSE, NULL) >> }

ImportChange ==
    \E rows \in ChangeImports :
        /\ NextTournament <= MaxChangeTournaments
        /\ save_tournament(NextTournament, rows)

RecalculateChange ==
    /\ Cardinality({ ranking_snapshots[i].snapshot_time : i \in DOMAIN ranking_snapshots })
         < MaxChangeSnapshots
    /\ recalculate_from(get_all_results(players, results, tournaments, tpr_index))
    /\ UNCHANGED << players, results, tournaments, tournament_rows, tpr_index, assigned >>
    /\ UNCHANGED << backend, scraper >>

GetRankChanges == \E top_n \in TopNs : get_rank_changes(top_n)

NextChange == ImportChange \/ RecalculateChange \/ GetRankChanges

SpecChange == InitStores /\ [][NextChange]_vars

\* The rank changes the legacy store reports now for the top N.
RankChanges(top_n) ==
    get_rank_changes_at(ranking_snapshots, snapshot_times(ranking_snapshots), top_n)

\* C22: a reported rank change is the previous rank minus the current rank
\* (positive when the player improved), in the changes Database.get_rank_changes
\* gives for the latest snapshot and in the rank_change get_rankings adds to
\* every ranking row that has a previous rank.
C22_PreviousMinusCurrent ==
    /\ \A top_n \in TopNs : \A p \in DOMAIN RankChanges(top_n) :
          ( RankChanges(top_n)[p].previous_rank # None /\ ~RankChanges(top_n)[p].is_new ) =>
              RankChanges(top_n)[p].rank_change
                = Some(Val(RankChanges(top_n)[p].previous_rank) - rank_in(LatestSnapshot, p))
    /\ \A r \in get_rankings(b_rankings) :
          r.previous_rank # None =>
              r.rank_change = Some(Val(r.previous_rank) - r.current_rank)

\* The earlier snapshots whose top N differs from the latest snapshot's.
EarlierDiffering(top_n) ==
    { t \in 1..(LatestTime - 1) :
        top_signature(SnapshotAt(t), top_n) # top_signature(LatestSnapshot, top_n) }

\* C23: get_rank_changes compares the latest snapshot with the most recent
\* earlier snapshot whose top N differs, however many snapshots with the same
\* top N lie between them, and gives nothing only when no earlier snapshot
\* differs.
C23_MostRecentDiffering ==
    \A top_n \in TopNs :
        IF EarlierDiffering(top_n) = {}
        THEN RankChanges(top_n) = << >>
        ELSE RankChanges(top_n)
               = rank_changes_between(LatestSnapshot,
                                      SnapshotAt(MaxOf(EarlierDiffering(top_n))), top_n)

\* ================================================== backend previous rank
\* The players with a result that counts for the backend ranking.
BackendRanked ==
    { p \in DOMAIN b_players :
        \E i \in DOMAIN b_results :
            b_results[i].player_id = p /\ is_valid_kenyan_result(b_players, b_results[i]) }

\* C24: after a backend recalculation every ranked player has a ranking row
\* whose previous_rank is the current_rank that player's row held just before
\* the recalculation, and null when the player had no row.
C24_PreviousRankCarried ==
    [][ last_op'.name = "recalculate" =>
          \A p \in BackendRanked :
              \E e \in b_rankings' :
                  /\ e.player_id = p
                  /\ e.previous_rank =
                       IF \E o \in b_rankings : o.player_id = p
                       THEN Some((CHOOSE o \in b_rankings : o.player_id = p).current_rank)
                       ELSE None ]_vars

\* A recalculation has moved a player to another rank and has ranked a player
\* for the first time.
C24_Witness ==
    /\ last_op.name = "recalculate"
    /\ \E e \in b_rankings : e.previous_rank # None /\ Val(e.previous_rank) # e.current_rank
    /\ \E e \in b_rankings : e.previous_rank = None

\* ================================================ recalculations in parallel
\* Nothing in db.py, services/rankings.py or the admin route takes a lock: a
\* recalculation is a sequence of statements, each on its own connection or
\* with its own commit, and the statements of two workers interleave.
goto(w, locals) == workers' = [ workers EXCEPT ![w] = locals ]

\* -------------------------------- Database.recalculate_rankings, by statement
\* get_all_results and the loop that builds ranking_records.
recalculate_rankings_read(w) ==
    /\ workers[w].pc = "idle"
    /\ \E valid \in { valid_results_of(get_all_results(players, results, tournaments, tpr_index)) } :
       \E ranked \in { ranked_players(get_all_results(players, results, tournaments,
                                                      tpr_index).keys, valid) } :
          IF \E k \in DOMAIN ranked : raises_type_error(valid[ranked[k]])
          THEN /\ last_op' = [ name |-> "recalculate_rankings", raised |-> TRUE,
                               repeated |-> last_op.name = "recalculate_rankings" ]
               /\ UNCHANGED workers
          ELSE /\ goto(w, [ pc |-> "replace", ranking_records |-> ranking_records_of(ranked, valid) ])
               /\ UNCHANGED last_op
    /\ UNCHANGED << legacy, backend, request, scraped, assigned >>

\* DELETE FROM player_rankings, the INSERTs and the commit: one transaction.
recalculate_rankings_replace(w) ==
    /\ workers[w].pc = "replace"
    /\ player_rankings' = Range(workers[w].ranking_records)
    /\ goto(w, [ pc |-> "snapshot", ranking_records |-> workers[w].ranking_records ])
    /\ UNCHANGED << players, results, tournaments, tournament_rows, tpr_index, ranking_snapshots >>
    /\ UNCHANGED << backend, request, scraped, last_op, assigned >>

\* _store_ranking_snapshot, on a connection of its own.
recalculate_rankings_snapshot(w) ==
    /\ workers[w].pc = "snapshot"
    /\ ranking_snapshots' =
         ranking_snapshots \o _store_ranking_snapshot(workers[w].ranking_records, utcnow)
    /\ goto(w, [ pc |-> "idle" ])
    /\ last_op' = [ name |-> "recalculate_rankings", raised |-> FALSE,
                    repeated |-> last_op.name = "recalculate_rankings" ]
    /\ UNCHANGED << players, results, tournaments, tournament_rows, tpr_index, player_rankings >>
    /\ UNCHANGED << backend, request, scraped, assigned >>

\* ---------------------------------- services.rankings.recalculate, by statement
\* previous_ranks = rankings_db.get_previous_ranks(conn, season_id): the rows
\* read are kept, of which ranking_data uses player_id and current_rank.
recalculate_previous_ranks(w) ==
    /\ workers[w].pc = "idle"
    /\ goto(w, [ pc |-> "results", previous_ranks |-> b_rankings ])
    /\ UNCHANGED << stores, request, scraped >>

\* get_valid_kenyan_results_for_season, the grouping and the sort.
recalculate_results(w) ==
    /\ workers[w].pc = "results"
    /\ \E data \in { sort_ranking_data(ranking_data(b_players, b_results,
                                                     workers[w].previous_ranks)) } :
          IF data = << >>
          THEN /\ goto(w, [ pc |-> "idle" ])
               /\ last_op' = [ name |-> "recalculate" ]
          ELSE /\ goto(w, [ pc |-> "upsert", ranking_data |-> data, i |-> 1 ])
               /\ UNCHANGED last_op
    /\ UNCHANGED << legacy, backend, request, scraped, assigned >>

\* One rankings_db.upsert of the loop, with its commit.
recalculate_upsert(w) ==
    /\ workers[w].pc = "upsert"
    /\ b_rankings' = rankings_upsert(b_rankings, workers[w].ranking_data[workers[w].i],
                                     workers[w].i)
    /\ IF workers[w].i = Len(workers[w].ranking_data)
       THEN /\ goto(w, [ pc |-> "idle" ])
            /\ last_op' = [ name |-> "recalculate" ]
       ELSE /\ goto(w, [ workers[w] EXCEPT !.i = workers[w].i + 1 ])
            /\ UNCHANGED last_op
    /\ UNCHANGED << b_players, b_tournaments, b_results, assigned >>
    /\ UNCHANGED << legacy, request, scraped >>

\* ------------------------------------ parallel recalculation specification
MaxRecalcTournaments == 2
MaxRecalcSnapshots == 2

RecalcStandings == { << AnnStanding >>, << AnnStanding, BobStanding >> }
RecalcImports ==
    { << Row("Ann", NULL, "KEN", Some(1), FALSE, NULL),
         Row("Bob", NULL, "KEN", Some(2), FALSE, NULL) >> }

ImportRecalc ==
    \E rows \in RecalcImports :
        /\ NextTournament <= MaxRecalcTournaments
        /\ save_tournament(NextTournament, rows)

ScrapeRecalc ==
    \E rows \in RecalcStandings :
        /\ NextScrape <= MaxRecalcTournaments
        /\ scrape_tournament(NextScrape, rows)

\* The snapshots stored and those the recalculations under way will store.
SnapshotsDue ==
    Cardinality({ ranking_snapshots[i].snapshot_time : i \in DOMAIN ranking_snapshots })
      + Cardinality({ w \in Workers : workers[w].pc \in { "replace", "snapshot" } })

ReadRankings == \E w \in Workers : SnapshotsDue < MaxRecalcSnapshots /\ recalculate_rankings_read(w)
ReplaceRankings == \E w \in Workers : recalculate_rankings_replace(w)
SnapshotRankings == \E w \in Workers : recalculate_rankings_snapshot(w)
ReadPreviousRanks == \E w \in Workers : recalculate_previous_ranks(w)
ReadSeasonResults == \E w \in Workers : recalculate_results(w)
UpsertRanking == \E w \in Workers : recalculate_upsert(w)

NextRecalc ==
    \/ ImportRecalc
    \/ ScrapeRecalc
    \/ ReadRankings
    \/ ReplaceRankings
    \/ SnapshotRankings
    \/ ReadPreviousRanks
    \/ ReadSeasonResults
    \/ UpsertRanking

SpecRecalc == InitStores /\ [][NextRecalc]_vars

\* A worker has read the valid results and has not completed its replace of
\* the ranking table.
Replacing(w) == workers[w].pc \in { "replace", "upsert" }

\* C25: no two recalculations are between their read of the valid results and
\* the completion of their replace of the ranking table at the same time.
C25_MutualExclusion ==
    \A a, b \in Workers : ( Replacing(a) /\ Replacing(b) ) => a = b

\* ===================================================== imports in parallel
\* --------------------------------- admin.scrape_tournament, by statement
\* Every query of the route runs and commits on its own; the route holds no
\* transaction and no lock across them.
\* tournaments_db.exists and tournaments_db.create.
scrape_create_tournament(w, tid, rows) ==
    /\ workers[w].pc = "idle"
    /\ tid \notin b_tournaments
    /\ b_tournaments' = b_tournaments \cup { tid }
    /\ goto(w, [ pc |-> IF rows = << >> THEN "done" ELSE "lookup",
                 tournament_id |-> tid, rows |-> rows, i |-> 1 ])
    /\ UNCHANGED << b_players, b_results, b_rankings, last_op, assigned >>
    /\ UNCHANGED << legacy, request, scraped >>

\* The SELECTs of get_or_create for row i: by FIDE ID, then by name and
\* federation (player_id 0: no player found).
scrape_lookup(w) ==
    /\ workers[w].pc = "lookup"
    /\ \E row \in { workers[w].rows[workers[w].i] } :
          goto(w, IF Truthy(row.fide_id) /\ get_by_fide_id(b_players, row.fide_id) # {}
                  THEN [ workers[w] EXCEPT !.pc = "create_result" ]
                         @@ [ player_id |-> fetchone(get_by_fide_id(b_players, row.fide_id)) ]
                  ELSE IF find_by_name_and_federation(b_players, row.name, row.federation) # {}
                  THEN [ workers[w] EXCEPT !.pc = "create_result" ]
                         @@ [ player_id |-> fetchone(find_by_name_and_federation(
                                                         b_players, row.name, row.federation)) ]
                  ELSE [ workers[w] EXCEPT !.pc = "create_player" ])
    /\ UNCHANGED << stores, request, scraped >>

\* players.create for row i.
scrape_create_player(w) ==
    /\ workers[w].pc = "create_player"
    /\ \E row \in { workers[w].rows[workers[w].i] } :
          b_players' = players_create(b_players, row.name, row.federation, row.fide_id)
    /\ goto(w, [ workers[w] EXCEPT !.pc = "create_result" ] @@ [ player_id |-> Len(b_players) + 1 ])
    /\ UNCHANGED << b_tournaments, b_results, b_rankings, last_op, assigned >>
    /\ UNCHANGED << legacy, request, scraped >>

\* results_db.create for row i, and the step to the next row.
scrape_create_result(w) ==
    /\ workers[w].pc = "create_result"
    /\ b_results' = results_create(b_results, workers[w].tournament_id, workers[w].player_id,
                                   workers[w].rows[workers[w].i].tpr)
    /\ goto(w, [ pc |-> IF workers[w].i = Len(workers[w].rows) THEN "done" ELSE "lookup",
                 tournament_id |-> workers[w].tournament_id, rows |-> workers[w].rows,
                 i |-> workers[w].i + 1 ])
    /\ assigned' = assigned \cup
         { [ store |-> "backend", name |-> workers[w].rows[workers[w].i].name,
             federation |-> workers[w].rows[workers[w].i].federation,
             fide_id |-> workers[w].rows[workers[w].i].fide_id, id |-> workers[w].player_id ] }
    /\ UNCHANGED << b_players, b_tournaments, b_rankings, last_op >>
    /\ UNCHANGED << legacy, request, scraped >>

\* -------------------------------------- parallel import specification
\* Worker w imports tournament w: two different tournaments, whose standings
\* can share players.
ParallelStandings ==
    { << AnnStanding >>, << BobStanding >>,
      << AnnStanding, BobStanding >>, << BobStanding, AnnStanding >> }

StartScrape == \E w \in Workers : \E rows \in ParallelStandings : scrape_create_tournament(w, w, rows)
LookupPlayer == \E w \in Workers : scrape_lookup(w)
CreatePlayer == \E w \in Workers : scrape_create_player(w)
CreateResult == \E w \in Workers : scrape_create_result(w)

NextParallel == StartScrape \/ LookupPlayer \/ CreatePlayer \/ CreateResult

SpecParallel == InitStores /\ [][NextParallel]_vars

\* What a store holds, whatever ids the players were given: how many records
\* there are of every player, and the results with their player's record.
stored(ps, rs) ==
    [ players |-> [ r \in Range(ps) |-> Cardinality({ i \in DOMAIN ps : ps[i] = r }) ],
      results |-> { [ tournament_id |-> rs[i].tournament_id, player |-> ps[rs[i].player_id],
                      tpr |-> rs[i].tpr ] : i \in DOMAIN rs },
      count |-> Len(rs) ]

\* The store after the import of worker a has run alone and to its end on the
\* empty store, and the import of worker b after it.
SerialImports(a, b) ==
    LET first == scrape_rows(workers[a].tournament_id, workers[a].rows, 1, << >>, << >>, << >>)
        second == scrape_rows(workers[b].tournament_id, workers[b].rows, 1,
                              first.players, first.results, << >>)
    IN  stored(second.players, second.results)

BothImported == \A w \in Workers : workers[w].pc = "done"

\* C26: when two imports of different tournaments that ran in parallel have
\* finished, the players and results stored are those one of the two serial
\* orders stores; a player of both tournaments has one record.
C26_SerialEquivalence ==
    BothImported =>
        stored(b_players, b_results) \in { SerialImports(1, 2), SerialImports(2, 1) }

\* ====================================================== rounding and order
\* C27: in the rank order a recalculation writes, of two players of the same
\* tier N the one whose unrounded mean of the N best TPRs is larger has the
\* smaller rank, also when both means round to the same integer.
C27_UnroundedComparison ==
    \A i, j \in DOMAIN RankOrder :
        LET a == RankOrder[i].player_id
            b == RankOrder[j].player_id
        IN  ( /\ Tier(a) = Tier(b)
              /\ Tier(a) > 0
              /\ TopSum(a, Tier(a)) > TopSum(b, Tier(a)) )
            => RankOrder[i].rank < RankOrder[j].rank

\* ========================================================= unique FIDE IDs
\* C28: in neither store do two player records hold the same FIDE ID that is
\* not blank.
C28_FideIdUnique ==
    /\ \A a, b \in DOMAIN players :
          ( Truthy(players[a].fide_id) /\ players[a].fide_id = players[b].fide_id ) => a = b
    /\ \A a, b \in DOMAIN b_players :
          ( Truthy(b_players[a].fide_id) /\ b_players[a].fide_id = b_players[b].fide_id ) => a = b

\* ======================================================= flagged walkovers
\* app.py get_tournament_data stores the rows of the scraper with their
\* has_walkover flag and without a result_status; validate_existing_results.py
\* stores a status later, or never.
MaxWalkoverTournaments == 3

WalkoverImports ==
    { << Row("Ann", NULL, "KEN", Some(1), FALSE, NULL) >>,
      << Row("Bob", NULL, "KEN", Some(2), TRUE, NULL) >>,
      << Row("Bob", NULL, "KEN", Some(2), TRUE, "walkover") >>,
      << Row("Ann", NULL, "KEN", Some(1), FALSE, NULL),
         Row("Bob", NULL, "KEN", Some(2), TRUE, NULL) >> }

ImportWalkover ==
    \E rows \in WalkoverImports :
        /\ NextTournament <= MaxWalkoverTournaments
        /\ save_tournament(NextTournament, rows)

RecalculateWalkover == recalculate_rankings

NextWalkover == ImportWalkover \/ RecalculateWalkover

SpecWalkover == InitStores /\ [][NextWalkover]_vars

\* The stored results of a player that carry no walkover flag.
Unflagged(rs, p) == { i \in DOMAIN rs : rs[i].player_id = p /\ ~rs[i].has_walkover }

\* C29: a recalculation counts no result whose has_walkover flag is set,
\* whatever its result_status: the tournaments_played of a ranked player is at
\* most the number of that player's results without the flag, and a player
\* whose results all carry the flag is not ranked.
C29_WalkoverExcluded ==
    /\ RecalculationDone =>
          \A e \in player_rankings :
              /\ Unflagged(results, e.player_id) # {}
              /\ e.tournaments_played <= Cardinality(Unflagged(results, e.player_id))
    /\ last_op.name = "recalculate" =>
          \A e \in b_rankings :
              e.player_id \in BackendRanked =>
                  /\ Unflagged(b_results, e.player_id) # {}
                  /\ e.tournaments_played <= Cardinality(Unflagged(b_results, e.player_id))

\* ================================================================ null TPRs
\* save_tournament stores the tpr it is given, None included (the parsers give
\* None for a performance cell that is empty or 0).
MaxNullTprTournaments == 3

NullTprImports ==
    { << Row("Ann", NULL, "KEN", Some(1), FALSE, NULL) >>,
      << Row("Bob", NULL, "KEN", None, FALSE, NULL) >>,
      << Row("Ann", NULL, "KEN", None, FALSE, NULL),
         Row("Bob", NULL, "KEN", Some(2), FALSE, NULL) >> }

ImportNullTpr ==
    \E rows \in NullTprImports :
        /\ NextTournament <= MaxNullTprTournaments
        /\ save_tournament(NextTournament, rows)

RecalculateNullTpr == recalculate_rankings

NextNullTpr == ImportNullTpr \/ RecalculateNullTpr

SpecNullTpr == InitStores /\ [][NextNullTpr]_vars

\* C30: a recalculation never ends with an error: it completes, and the
\* ranking table then holds a row for every player with a valid result.
C30_RecalculationCompletes ==
    last_op.name = "recalculate_rankings" =>
        /\ ~last_op.raised
        /\ \A p \in DOMAIN players :
              ValidResultIds(p) # {} => \E e \in player_rankings : e.player_id = p

====
